---- MODULE Spec2Model ----
(***************************************************************************)
(* Model of the temporal bash-history analyzer (src/temporal_analyzer.py). *)
(*                                                                         *)
(* Calendar dates are day ordinals (integers); the difference of two dates *)
(* in days is integer subtraction.  Command texts are sequences of         *)
(* one-character strings, so that normalisation, tokenisation and len()    *)
(* are computed character by character as the Python code computes them.   *)
(***************************************************************************)
EXTENDS Integers, Sequences, FiniteSets, TLC

VARIABLES
    pc,               \* position of the run / of the function under study
    dates_in,         \* argument of count_non_adjacent_days
    days_out,         \* its result (-1: not computed yet)
    text,             \* a raw command text, argument of clean_command
    variant,          \* the same text with other whitespace around operators
    cleaned1,         \* clean_command(text)
    cleaned2,         \* clean_command(cleaned1)
    vcleaned,         \* clean_command(variant)
    used_names,       \* the allocation set of the current report section
    installed,        \* host: the names for which `type` succeeds
    type_raises,      \* host: the names for which running `type` fails
    requests,         \* number of allocation requests made
    last_call,        \* the last generate_safe_name call and its result
    entries,          \* rest of command_entries when the log is fixed up front
    processed,        \* number of entries the analyze_commands loop has taken
    min_days,         \* --min-days, the threshold given to analyze_commands
    min_count,        \* --min-count, as main() parses it
    commands,         \* self.commands
    all_commands,     \* self.all_commands: pattern -> count, keys = DOMAIN
    key_order,        \* insertion order of the keys of self.all_commands
    command_dates,    \* self.command_dates: pattern -> dates, keys = DOMAIN
    valid_commands,   \* self.valid_commands
    invalid_commands, \* self.invalid_commands
    skipped_count,    \* self.skipped_count
    skip_reasons,     \* self.skip_reasons: reason -> count, keys = DOMAIN
    alias_recommendations,  \* result of analyze_root_commands
    file_lines,       \* the lines of ~/.bash_history, as readlines() gives them
    line_no,          \* index of the line the loop of read_history takes next
    current_date,     \* current_date of read_history
    history_entries,  \* history_entries of read_history
    oracle_calls,     \* string -> number of times `type` was run for it
    permuted,         \* the entries of the run in another order
    first_run,        \* what the run on the entries in their order produced
    function_recommendations,  \* returned by analyze_bash_functions
    function_names,   \* the names of the functions file, in file order
    env_var_recommendations,   \* returned by analyze_environment_variables
    table_aliases,    \* [original, alias] of the rows of the printed table
    file_aliases,     \* [original, alias] of the lines of the aliases file
    export_names      \* the names of the exports file, in file order

daysVars == <<dates_in, days_out>>
cleanVars == <<text, variant, cleaned1, cleaned2, vcleaned>>
nameVars == <<used_names, installed, type_raises, requests, last_call>>
indexVars == <<commands, all_commands, key_order, command_dates>>
oracleVars == <<valid_commands, invalid_commands>>
skipVars == <<skipped_count, skip_reasons>>
argVars == <<min_days, min_count>>
runVars == <<entries, processed, argVars, indexVars, oracleVars, skipVars,
             alias_recommendations>>
histVars == <<file_lines, line_no, current_date, history_entries>>
orderVars == <<permuted, first_run>>
planVars == <<function_recommendations, function_names,
              env_var_recommendations, table_aliases, file_aliases,
              export_names>>
vars == <<pc, daysVars, cleanVars, nameVars, runVars, histVars, oracle_calls,
         orderVars, planVars>>

(***************************************************************************)
(* Bounds of the model.                                                    *)
(***************************************************************************)
MaxDenseDay == 7      \* every subset of 1..MaxDenseDay is an input
MaxSparseDay == 20    \* sets of at most MaxSparse dates in 1..MaxSparseDay
MaxSparse == 3
MaxText == 4          \* length of the raw texts given to clean_command
MaxPad == 2           \* whitespace characters added around operators
MaxRequests == 106    \* allocation requests against one allocation set
MaxLog == 3           \* entries of the history analysed in one run
MaxThreshold == 2     \* largest --min-days tried on the small histories
MaxDate == 3          \* dates of the small histories are 1..MaxDate
MaxDeployDay == 11    \* dates of the deploy scenario are 1..MaxDeployDay
MaxFile == 3          \* lines of the small history files
MaxMainFile == 3      \* lines of the history files given to main()
MaxMinCount == 5      \* largest --min-count tried
MaxOrderLog == 3      \* entries of the histories analysed in two orders
MaxRows == 3          \* recommendations named in the table and in the file

(***************************************************************************)
(* Values of the variables a specification does not use.                   *)
(***************************************************************************)
\* Python's None
None == <<"<None>">>

\* the None that stands for "no date" in an entry (line, date); dates are
\* day ordinals, which are positive
NoDate == 0

HistIdle ==
    /\ file_lines = << >>
    /\ line_no = 0
    /\ current_date = NoDate
    /\ history_entries = << >>

DaysIdle ==
    /\ dates_in = {}
    /\ days_out = -1

CleanIdle ==
    /\ text = << >>
    /\ variant = << >>
    /\ cleaned1 = None
    /\ cleaned2 = None
    /\ vcleaned = None

NamesIdle ==
    /\ used_names = {}
    /\ installed = {}
    /\ type_raises = {}
    /\ requests = 0
    /\ last_call = [base |-> << >>, used |-> {}, result |-> << >>]

\* dictionaries start empty
EmptyDict == [k \in {} |-> 0]

\* no run has been completed yet
NoRun ==
    [done |-> FALSE, commands |-> << >>, all_commands |-> EmptyDict,
     key_order |-> << >>, command_dates |-> EmptyDict,
     recommendations |-> << >>]

OrderIdle ==
    /\ permuted = << >>
    /\ first_run = NoRun

\* nothing has been planned or named yet
PlanIdle ==
    /\ function_recommendations = << >>
    /\ function_names = << >>
    /\ env_var_recommendations = << >>
    /\ table_aliases = << >>
    /\ file_aliases = << >>
    /\ export_names = << >>

RunIdle ==
    /\ entries = << >>
    /\ processed = 0
    /\ min_days = 0
    /\ min_count = 0
    /\ commands = << >>
    /\ all_commands = EmptyDict
    /\ key_order = << >>
    /\ command_dates = EmptyDict
    /\ valid_commands = {}
    /\ invalid_commands = {}
    /\ skipped_count = 0
    /\ skip_reasons = EmptyDict
    /\ alias_recommendations = << >>

(***************************************************************************)
(* count_non_adjacent_days (lines 187-200)                                 *)
(***************************************************************************)
MinOf(S) == CHOOSE m \in S : \A x \in S : m <= x

RECURSIVE sorted(_)
\* sorted(dates): the dates in ascending order
sorted(S) == IF S = {} THEN << >>
             ELSE LET m == MinOf(S) IN <<m>> \o sorted(S \ {m})

\* mutation of the gap test: an adjacent day counts too
IsNonAdjacentGapMut(prev, cur) == cur - prev >= 1

\* mutation of the gap test: a gap of two days counts as adjacent
IsNonAdjacentGapWide(prev, cur) == cur - prev > 2

\* (sorted_dates[i] - sorted_dates[i-1]).days > 1
IsNonAdjacentGap(prev, cur) == cur - prev > 1

RECURSIVE CountGapsFrom(_, _, _)
\* the for loop over range(1, len(sorted_dates)), 1-based here
CountGapsFrom(sd, i, cnt) ==
    IF i > Len(sd) THEN cnt
    ELSE CountGapsFrom(sd, i + 1,
                       IF IsNonAdjacentGap(sd[i - 1], sd[i]) THEN cnt + 1 ELSE cnt)

count_non_adjacent_days(dates) ==
    IF dates = {} THEN 0
    ELSE CountGapsFrom(sorted(dates), 2, 1)

(***************************************************************************)
(* clean_command (lines 165-185)                                           *)
(***************************************************************************)
\* characters matched by \s and removed by str.strip()
Whitespace == {" ", "\t"}

\* mutation of the operator list: ';' forgotten
operatorsMut ==
    << <<"&", "&">>, <<"|", "|">>, <<"|">>, <<">">>, <<">", ">">>,
       <<"<">>, <<"<", "<">> >>

\* operators = ['&&', '||', '|', ';', '>', '>>', '<', '<<'], in this order
operators ==
    << <<"&", "&">>, <<"|", "|">>, <<"|">>, <<";">>, <<">">>, <<">", ">">>,
       <<"<">>, <<"<", "<">> >>

RECURSIVE lstrip(_)
lstrip(s) == IF s # << >> /\ Head(s) \in Whitespace THEN lstrip(Tail(s)) ELSE s

RECURSIVE rstrip(_)
rstrip(s) == IF s # << >> /\ s[Len(s)] \in Whitespace
             THEN rstrip(SubSeq(s, 1, Len(s) - 1)) ELSE s

\* str.strip()
strip(s) == rstrip(lstrip(s))

RECURSIVE SkipWhitespace(_, _)
\* index of the first character at or after i that \s* does not consume
SkipWhitespace(s, i) ==
    IF i <= Len(s) /\ s[i] \in Whitespace THEN SkipWhitespace(s, i + 1) ELSE i

\* the literal op occurs in s at index i
OccursAt(s, i, op) ==
    /\ i + Len(op) - 1 <= Len(s)
    /\ \A k \in 1..Len(op) : s[i + k - 1] = op[k]

RECURSIVE SubOperatorFrom(_, _, _)
\* re.sub(rf'\s*{re.escape(op)}\s*', f' {op} ', s) scanning from index i:
\* leftmost non-overlapping matches, each replaced by ' op '
SubOperatorFrom(op, s, i) ==
    IF i > Len(s) THEN << >>
    ELSE LET j == SkipWhitespace(s, i) IN
         IF OccursAt(s, j, op)
         THEN <<" ">> \o op \o <<" ">>
                \o SubOperatorFrom(op, s, SkipWhitespace(s, j + Len(op)))
         ELSE <<s[i]>> \o SubOperatorFrom(op, s, i + 1)

RECURSIVE NormalizeOperators(_, _, _)
\* the for loop over operators
NormalizeOperators(ops, k, s) ==
    IF k > Len(ops) THEN s
    ELSE NormalizeOperators(ops, k + 1, SubOperatorFrom(ops[k], s, 1))

RECURSIVE CollapseWhitespaceFrom(_, _)
\* re.sub(r'\s+', ' ', s): every maximal whitespace run becomes one space
CollapseWhitespaceFrom(s, i) ==
    IF i > Len(s) THEN << >>
    ELSE IF s[i] \in Whitespace
         THEN <<" ">> \o CollapseWhitespaceFrom(s, SkipWhitespace(s, i))
         ELSE <<s[i]>> \o CollapseWhitespaceFrom(s, i + 1)

clean_command(command) ==
    LET c == strip(command) IN
    IF c = << >> \/ Head(c) = "#" THEN None
    ELSE strip(CollapseWhitespaceFrom(NormalizeOperators(operators, 1, c), 1))

(***************************************************************************)
(* Specification SpecClean: clean_command applied to raw texts, to its own *)
(* result, and to respaced variants of the same text.                      *)
(***************************************************************************)
Alphabet == {"a", " ", "&", "|", ";", ">", "<", "#"}

\* characters that operators are made of
OperatorChars == {"&", "|", ";", ">", "<"}

Texts == UNION {[1..n -> Alphabet] : n \in 0..MaxText}

\* the operators users type with or without whitespace: && || | ; > >> < <<
OperatorTokens ==
    { <<"&", "&">>, <<"|", "|">>, <<"|">>, <<";">>, <<">">>, <<">", ">">>,
      <<"<">>, <<"<", "<">> }

\* an operator token stands at index i of s: its neighbours are
\* not operator characters
OperatorTokenAt(s, i, op) ==
    /\ OccursAt(s, i, op)
    /\ (i > 1 => s[i - 1] \notin OperatorChars)
    /\ (i + Len(op) <= Len(s) => s[i + Len(op)] \notin OperatorChars)

InsertAt(s, i, ch) == SubSeq(s, 1, i - 1) \o <<ch>> \o SubSeq(s, i, Len(s))

InitClean ==
    /\ pc = "clean_start"
    /\ text \in Texts
    /\ variant = text
    /\ cleaned1 = None
    /\ cleaned2 = None
    /\ vcleaned = None
    /\ DaysIdle
    /\ NamesIdle
    /\ RunIdle
    /\ HistIdle
    /\ oracle_calls = EmptyDict
    /\ OrderIdle
    /\ PlanIdle

\* the user types the same command with more whitespace before or after one
\* of its operators
Respace ==
    /\ pc = "clean_start"
    /\ Len(variant) < Len(text) + MaxPad
    /\ \E i \in 1..Len(variant) : \E op \in OperatorTokens :
       \E w \in Whitespace : \E after \in BOOLEAN :
          /\ OperatorTokenAt(variant, i, op)
          /\ variant' = InsertAt(variant, IF after THEN i + Len(op) ELSE i, w)
    /\ UNCHANGED <<pc, text, cleaned1, cleaned2, vcleaned, daysVars, nameVars, runVars, orderVars, planVars, histVars, oracle_calls>>

CleanBoth ==
    /\ pc = "clean_start"
    /\ cleaned1' = clean_command(text)
    /\ vcleaned' = clean_command(variant)
    /\ pc' = "clean_once"
    /\ UNCHANGED <<text, variant, cleaned2, daysVars, nameVars, runVars, orderVars, planVars, histVars, oracle_calls>>

CleanAgain ==
    /\ pc = "clean_once"
    /\ cleaned1 # None
    /\ cleaned2' = clean_command(cleaned1)
    /\ pc' = "clean_twice"
    /\ UNCHANGED <<text, variant, cleaned1, vcleaned, daysVars, nameVars, runVars, orderVars, planVars, histVars, oracle_calls>>

NextClean == Respace \/ CleanBoth \/ CleanAgain

SpecClean == InitClean /\ [][NextClean]_vars

\* C7: clean_command is idempotent wherever it returns a string, and texts
\* that differ only in the whitespace around an operator token normalise to
\* the same pattern (`git fetch&&git log` and `git fetch && git log`).
C7_IdempotentAndRespacing ==
    /\ (pc = "clean_twice" => cleaned2 = cleaned1)
    /\ (pc \in {"clean_once", "clean_twice"} => vcleaned = cleaned1)

C7_Witness ==
    /\ pc = "clean_twice"
    /\ text = <<"a", "&", "&", "a">>
    /\ variant = <<"a", " ", "&", "&", "\t", "a">>
    /\ cleaned1 = <<"a", " ", "&", "&", " ", "a">>
    /\ cleaned2 = cleaned1

(***************************************************************************)
(* is_name_available and generate_safe_name (lines 27-96)                  *)
(***************************************************************************)
UpperCaseLetters ==
    <<"A", "B", "C", "D", "E", "F", "G", "H", "I", "J", "K", "L", "M",
    "N", "O", "P", "Q", "R", "S", "T", "U", "V", "W", "X", "Y", "Z">>

LowerCaseLetters ==
    <<"a", "b", "c", "d", "e", "f", "g", "h", "i", "j", "k", "l", "m",
    "n", "o", "p", "q", "r", "s", "t", "u", "v", "w", "x", "y", "z">>

DigitChars == <<"0", "1", "2", "3", "4", "5", "6", "7", "8", "9">>

Range(f) == {f[i] : i \in DOMAIN f}

\* one character of str.lower()
LowerChar(ch) ==
    IF ch \in Range(UpperCaseLetters)
    THEN LowerCaseLetters[CHOOSE i \in 1..26 : UpperCaseLetters[i] = ch]
    ELSE ch

\* str.lower()
lower(s) == [i \in 1..Len(s) |-> LowerChar(s[i])]

RECURSIVE str_int(_)
\* the decimal text of a natural number, as an f-string formats it
str_int(n) ==
    IF n < 10 THEN <<DigitChars[n + 1]>>
    ELSE str_int(n \div 10) \o <<DigitChars[(n % 10) + 1]>>

\* self.reserved_names (lines 27-42)
reserved_names == {
    <<"c", "d">>, <<"e", "c", "h", "o">>, <<"p", "w", "d">>,
    <<"t", "e", "s", "t">>, <<"t", "r", "u", "e">>,
    <<"f", "a", "l", "s", "e">>, <<"e", "x", "i", "t">>,
    <<"r", "e", "t", "u", "r", "n">>, <<"b", "r", "e", "a", "k">>,
    <<"c", "o", "n", "t", "i", "n", "u", "e">>, <<"i", "f">>,
    <<"t", "h", "e", "n">>, <<"e", "l", "s", "e">>, <<"e", "l", "i", "f">>,
    <<"f", "i">>, <<"f", "o", "r">>, <<"w", "h", "i", "l", "e">>,
    <<"u", "n", "t", "i", "l">>, <<"d", "o">>, <<"d", "o", "n", "e">>,
    <<"c", "a", "s", "e">>, <<"e", "s", "a", "c">>,
    <<"f", "u", "n", "c", "t", "i", "o", "n">>,
    <<"s", "e", "l", "e", "c", "t">>, <<"t", "i", "m", "e">>,
    <<"e", "x", "e", "c">>, <<"e", "v", "a", "l">>,
    <<"s", "o", "u", "r", "c", "e">>, <<"a", "l", "i", "a", "s">>,
    <<"u", "n", "a", "l", "i", "a", "s">>, <<"e", "x", "p", "o", "r", "t">>,
    <<"u", "n", "s", "e", "t">>, <<"r", "e", "a", "d", "o", "n", "l", "y">>,
    <<"d", "e", "c", "l", "a", "r", "e">>, <<"l", "o", "c", "a", "l">>,
    <<"l", "e", "t">>, <<"s", "h", "i", "f", "t">>, <<"s", "e", "t">>,
    <<"t", "r", "a", "p">>, <<"w", "a", "i", "t">>, <<"j", "o", "b", "s">>,
    <<"f", "g">>, <<"b", "g">>, <<"d", "i", "s", "o", "w", "n">>,
    <<"s", "u", "s", "p", "e", "n", "d">>, <<"k", "i", "l", "l">>,
    <<"k", "i", "l", "l", "a", "l", "l">>, <<"l", "s">>, <<"c", "p">>,
    <<"m", "v">>, <<"r", "m">>, <<"m", "k", "d", "i", "r">>,
    <<"r", "m", "d", "i", "r">>, <<"t", "o", "u", "c", "h">>,
    <<"c", "a", "t">>, <<"l", "e", "s", "s">>, <<"m", "o", "r", "e">>,
    <<"h", "e", "a", "d">>, <<"t", "a", "i", "l">>, <<"g", "r", "e", "p">>,
    <<"f", "i", "n", "d">>, <<"s", "o", "r", "t">>, <<"c", "u", "t">>,
    <<"a", "w", "k">>, <<"s", "e", "d">>, <<"t", "r">>, <<"w", "c">>,
    <<"d", "i", "f", "f">>, <<"p", "a", "t", "c", "h">>, <<"t", "a", "r">>,
    <<"g", "z", "i", "p">>, <<"z", "i", "p">>, <<"u", "n", "z", "i", "p">>,
    <<"c", "u", "r", "l">>, <<"w", "g", "e", "t">>, <<"s", "s", "h">>,
    <<"s", "c", "p">>, <<"r", "s", "y", "n", "c">>, <<"g", "i", "t">>,
    <<"v", "i", "m">>, <<"n", "a", "n", "o">>, <<"e", "m", "a", "c", "s">>,
    <<"p", "y", "t", "h", "o", "n">>, <<"p", "y", "t", "h", "o", "n", "3">>,
    <<"n", "o", "d", "e">>, <<"n", "p", "m">>,
    <<"d", "o", "c", "k", "e", "r">>, <<"m", "a", "k", "e">>,
    <<"g", "c", "c">>, <<"g", "+", "+">>, <<"j", "a", "v", "a">>,
    <<"j", "a", "v", "a", "c">>, <<"m", "y", "s", "q", "l">>,
    <<"p", "s", "q", "l">>, <<"s", "u", "d", "o">>, <<"s", "u">>,
    <<"c", "h", "m", "o", "d">>, <<"c", "h", "o", "w", "n">>,
    <<"c", "h", "g", "r", "p">>, <<"p", "s">>, <<"t", "o", "p">>,
    <<"h", "t", "o", "p">>, <<"d", "f">>, <<"d", "u">>,
    <<"f", "r", "e", "e">>, <<"m", "o", "u", "n", "t">>,
    <<"u", "m", "o", "u", "n", "t">>, <<"w", "h", "i", "c", "h">>,
    <<"w", "h", "e", "r", "e", "i", "s">>, <<"m", "a", "n">>,
    <<"i", "n", "f", "o">>, <<"h", "e", "l", "p">>,
    <<"h", "i", "s", "t", "o", "r", "y">>, <<"c", "l", "e", "a", "r">>,
    <<"r", "e", "s", "e", "t">>, <<"t", "p", "u", "t">>,
    <<"s", "t", "t", "y">> }

\* subprocess.run(['type', name]): "zero" (the command exists), "nonzero",
\* or "raises" when the subprocess cannot be run
TypeOutcome(name) ==
    IF name \in type_raises THEN "raises"
    ELSE IF name \in installed THEN "zero"
    ELSE "nonzero"

is_name_available(name) ==
    IF lower(name) \in reserved_names THEN FALSE
    ELSE IF TypeOutcome(name) = "zero" THEN FALSE
    ELSE TRUE    \* also after `except: pass`

\* the characters kept by re.sub(r'[^a-zA-Z0-9_-]', '', candidate)
IsNameChar(ch) ==
    ch \in Range(UpperCaseLetters) \cup Range(LowerCaseLetters)
           \cup Range(DigitChars) \cup {"_", "-"}

\* while counter <= 99
NumberedLimit == 99

\* for alt_suffix in ['x', 'alt', 'new', 'my']
alt_suffixes == << <<"x">>, <<"a", "l", "t">>, <<"n", "e", "w">>, <<"m", "y">> >>

\* `test_name not in used_names and self.is_name_available(test_name)`
Accepts(name, used) == name \notin used /\ is_name_available(name)

RECURSIVE TryAltSuffixes(_, _, _, _)
TryAltSuffixes(candidate, used, k, counter) ==
    IF k > Len(alt_suffixes)
    THEN <<"c", "m", "d">> \o str_int(counter)       \* final fallback
    ELSE IF Accepts(candidate \o alt_suffixes[k], used)
         THEN candidate \o alt_suffixes[k]
         ELSE TryAltSuffixes(candidate, used, k + 1, counter)

RECURSIVE TryNumbers(_, _, _)
TryNumbers(candidate, used, counter) ==
    IF counter > NumberedLimit THEN TryAltSuffixes(candidate, used, 1, counter)
    ELSE IF Accepts(candidate \o str_int(counter), used)
         THEN candidate \o str_int(counter)
         ELSE TryNumbers(candidate, used, counter + 1)

generate_safe_name(base_name, used, prefix, suffix) ==
    LET kept == SelectSeq(lower(prefix \o base_name \o suffix), IsNameChar)
        candidate == IF kept = << >> THEN <<"c", "m", "d">> ELSE kept
    IN  IF Accepts(candidate, used) THEN candidate
        ELSE TryNumbers(candidate, used, 1)

\* the oracle calls of one generate_safe_name: is_name_available runs `type`
\* for every candidate it is given that is not reserved, and it is given the
\* candidates that are not in used_names (the `and` of lines 78, 85, 92)
Consults(name, used) == name \notin used /\ lower(name) \notin reserved_names

Consulted(name, used) == IF Consults(name, used) THEN {name} ELSE {}

RECURSIVE ConsultedAltSuffixes(_, _, _)
ConsultedAltSuffixes(candidate, used, k) ==
    IF k > Len(alt_suffixes) THEN {}
    ELSE Consulted(candidate \o alt_suffixes[k], used)
           \cup IF Accepts(candidate \o alt_suffixes[k], used) THEN {}
                ELSE ConsultedAltSuffixes(candidate, used, k + 1)

RECURSIVE ConsultedNumbers(_, _, _)
ConsultedNumbers(candidate, used, counter) ==
    IF counter > NumberedLimit THEN ConsultedAltSuffixes(candidate, used, 1)
    ELSE Consulted(candidate \o str_int(counter), used)
           \cup IF Accepts(candidate \o str_int(counter), used) THEN {}
                ELSE ConsultedNumbers(candidate, used, counter + 1)

\* the names for which generate_safe_name(base_name, used) runs `type`
consulted_names(base_name, used, prefix, suffix) ==
    LET kept == SelectSeq(lower(prefix \o base_name \o suffix), IsNameChar)
        candidate == IF kept = << >> THEN <<"c", "m", "d">> ELSE kept
    IN  Consulted(candidate, used)
          \cup IF Accepts(candidate, used) THEN {}
               ELSE ConsultedNumbers(candidate, used, 1)

\* oracle_calls after one more run of `type` for each of the names
CountCalls(calls, names) ==
    [n \in DOMAIN calls \cup names |->
        (IF n \in DOMAIN calls THEN calls[n] ELSE 0)
          + (IF n \in names THEN 1 ELSE 0)]

(***************************************************************************)
(* Specification SpecNames: a sequence of allocation requests against one  *)
(* allocation set, as the callers make them (the returned name is added to *)
(* the set before the next request, lines 765-766 and 910-911).            *)
(***************************************************************************)
\* base names requested: a reserved word, the same in upper case, and one
\* that is empty after cleaning
BaseNames == { <<"l", "s">>, <<"L", "S">>, <<"!">> }

\* commands that may exist on the host
HostCommands == { <<"l", "s", "1">>, <<"c", "m", "d", "1", "0", "0">> }

\* names for which running `type` may fail
FailingLookups == { <<"l", "s", "2">> }

InitNames ==
    /\ pc = "names"
    /\ used_names = {}
    /\ installed \in SUBSET HostCommands
    /\ type_raises \in SUBSET FailingLookups
    /\ requests = 0
    /\ last_call = [base |-> << >>, used |-> {}, result |-> << >>]
    /\ DaysIdle
    /\ CleanIdle
    /\ RunIdle
    /\ HistIdle
    /\ oracle_calls = EmptyDict
    /\ OrderIdle
    /\ PlanIdle

\* one request: generate_safe_name(base, used_names), then used_names.add
Allocate(base) ==
    /\ \E name \in {generate_safe_name(base, used_names, << >>, << >>)} :
         /\ last_call' = [base |-> base, used |-> used_names, result |-> name]
         /\ used_names' = used_names \cup {name}
    /\ oracle_calls' =
          CountCalls(oracle_calls,
                     consulted_names(base, used_names, << >>, << >>))
    /\ requests' = requests + 1
    /\ UNCHANGED <<pc, installed, type_raises, daysVars, cleanVars, runVars, orderVars, planVars, histVars>>

AllocateName ==
    /\ pc = "names"
    /\ requests < MaxRequests
    /\ \E base \in BaseNames : Allocate(base)

NextNames == AllocateName

SpecNames == InitNames /\ [][NextNames]_vars

\* C5: generate_safe_name never returns a name that is in the allocation set
\* passed to it, nor a reserved name, nor a name the oracle reports as an
\* existing command, the final cmd<n> fallback included.
C5_SafeName ==
    requests > 0 =>
        /\ last_call.result \notin last_call.used
        /\ lower(last_call.result) \notin reserved_names
        /\ TypeOutcome(last_call.result) # "zero"

\* C12: a candidate name whose oracle call fails is rejected:
\* generate_safe_name does not return it, is_name_available being False
\* for it.
C12_FailedLookupRejected ==
    requests > 0 =>
        \/ TypeOutcome(last_call.result) # "raises"
        \/ ~is_name_available(last_call.result)

(***************************************************************************)
(* Specification SpecReport: the two passes that name the alias            *)
(* recommendations of one run, the report table of                         *)
(* calculate_temporal_savings (lines 782-787) and then the alias file of   *)
(* generate_output_files (lines 897-906), each with its own allocation set.*)
(***************************************************************************)
\* base aliases that generate_alias derives from the recommended commands
\* (`ax` for `abc x`), and one that is a reserved name
RowBases == { <<"a", "x">>, <<"l", "s">> }

InitReport ==
    /\ pc = "table"
    /\ used_names = {}
    /\ installed \in SUBSET HostCommands
    /\ type_raises \in SUBSET FailingLookups
    /\ requests = 0
    /\ last_call = [base |-> << >>, used |-> {}, result |-> << >>]
    /\ oracle_calls = EmptyDict
    /\ OrderIdle
    /\ PlanIdle
    /\ DaysIdle
    /\ CleanIdle
    /\ RunIdle
    /\ HistIdle

\* one row of the table or one alias of the file is named
NameRow ==
    /\ pc \in {"table", "files"}
    /\ requests < MaxRows
    /\ \E base \in RowBases : Allocate(base)

\* the table is printed; generate_output_files starts with an empty set
StartOutputFiles ==
    /\ pc = "table"
    /\ pc' = "files"
    /\ used_names' = {}
    /\ requests' = 0
    /\ UNCHANGED <<installed, type_raises, last_call, oracle_calls, daysVars,
                   cleanVars, runVars, orderVars, planVars, histVars>>

NextReport == NameRow \/ StartOutputFiles

SpecReport == InitReport /\ [][NextReport]_vars

\* C14: over one run, `type` is run at most once for each distinct string.
C14_OneLookupPerString ==
    \A name \in DOMAIN oracle_calls : oracle_calls[name] <= 1

(***************************************************************************)
(* Specification SpecDays: count_non_adjacent_days applied to date sets.   *)
(***************************************************************************)
DateSets ==
    (SUBSET (1..MaxDenseDay))
    \cup {S \in SUBSET (1..MaxSparseDay) : Cardinality(S) <= MaxSparse}

InitDays ==
    /\ pc = "days_start"
    /\ dates_in \in DateSets
    /\ days_out = -1
    /\ CleanIdle
    /\ NamesIdle
    /\ RunIdle
    /\ HistIdle
    /\ oracle_calls = EmptyDict
    /\ OrderIdle
    /\ PlanIdle

CountDays ==
    /\ pc = "days_start"
    /\ days_out' = count_non_adjacent_days(dates_in)
    /\ pc' = "days_done"
    /\ UNCHANGED <<dates_in, cleanVars, nameVars, runVars, orderVars, planVars, histVars, oracle_calls>>

NextDays == CountDays

SpecDays == InitDays /\ [][NextDays]_vars

\* C1: for a non-empty date set D the result lies in 1..|D|, and it equals
\* |D| exactly when no two dates of D are one day apart.
C1_BoundsAndEquality ==
    (pc = "days_done" /\ dates_in # {}) =>
        /\ days_out >= 1
        /\ days_out <= Cardinality(dates_in)
        /\ (days_out = Cardinality(dates_in)
              <=> ~ \E a \in dates_in : \E b \in dates_in : b - a = 1)

C1_Witness ==
    /\ pc = "days_done"
    /\ dates_in = {2, 3, 5}
    /\ days_out = 2

\* C2: the result is the number of maximal runs of consecutive days: 0 for
\* the empty set, 1 for three consecutive days, 3 for three days that are
\* each more than a day apart.
RunStarts(D) == {d \in D : (d - 1) \notin D}

C2_MaximalRuns ==
    pc = "days_done" =>
        /\ days_out = Cardinality(RunStarts(dates_in))
        /\ (dates_in = {} => days_out = 0)
        /\ (dates_in = {1, 2, 3} => days_out = 1)
        /\ (dates_in = {1, 10, 20} => days_out = 3)

C2_Witness ==
    /\ pc = "days_done"
    /\ dates_in = {1, 10, 20}
    /\ days_out = 3

(***************************************************************************)
(* analyze_commands: the loop body (lines 206-250)                         *)
(***************************************************************************)
RECURSIVE WordEnd(_, _)
\* index after the run of non-whitespace characters that starts at i
WordEnd(s, i) ==
    IF i <= Len(s) /\ s[i] \notin Whitespace THEN WordEnd(s, i + 1) ELSE i

RECURSIVE split(_)
\* str.split(): the maximal runs of non-whitespace characters
split(s) ==
    LET t == lstrip(s) IN
    IF t = << >> THEN << >>
    ELSE LET n == WordEnd(t, 1) IN
         <<SubSeq(t, 1, n - 1)>> \o split(SubSeq(t, n, Len(t)))

RECURSIVE join(_)
\* ' '.join(parts)
join(parts) ==
    IF parts = << >> THEN << >>
    ELSE IF Len(parts) = 1 THEN parts[1]
    ELSE parts[1] \o <<" ">> \o join(Tail(parts))

\* the keyword list of line 220
shell_constructs ==
    { <<"i", "f">>, <<"t", "h", "e", "n">>,
      <<"e", "l", "s", "e">>, <<"e", "l", "i", "f">>,
      <<"f", "i">>, <<"f", "o", "r">>,
      <<"w", "h", "i", "l", "e">>, <<"d", "o">>,
      <<"d", "o", "n", "e">>, <<"c", "a", "s", "e">>,
      <<"e", "s", "a", "c">> }

\* if len(first_word) > 50
MaxFirstWord == 50

Min(a, b) == IF a <= b THEN a ELSE b

\* patterns_to_track: [cleaned, first_word] followed by the prefixes of
\* length in range(2, min(6, len(parts) + 1)); a list, duplicates kept
patterns_to_track(cleaned, parts) ==
    <<cleaned, parts[1]>>
      \o [k \in 1..(Min(6, Len(parts) + 1) - 2) |-> join(SubSeq(parts, 1, k + 1))]

\* counter[key] += 1 on a Counter
CounterInc(counter, key) ==
    IF key \in DOMAIN counter THEN [counter EXCEPT ![key] = @ + 1]
    ELSE counter @@ (key :> 1)

\* mutation: the date is recorded only for a pattern that is new
TrackPatternNewOnly(st, pattern, date) ==
    [ac |-> CounterInc(st.ac, pattern),
     order |-> IF pattern \in DOMAIN st.ac THEN st.order
               ELSE Append(st.order, pattern),
     cd |-> IF date = NoDate \/ pattern \in DOMAIN st.ac THEN st.cd
            ELSE IF pattern \in DOMAIN st.cd
                 THEN [st.cd EXCEPT ![pattern] = @ \cup {date}]
                 ELSE st.cd @@ (pattern :> {date})]

\* the body of `for pattern in patterns_to_track` (lines 245-247) on the
\* index st = [ac: all_commands, order: its key order, cd: command_dates]
TrackPattern(st, pattern, date) ==
    [ac |-> CounterInc(st.ac, pattern),
     order |-> IF pattern \in DOMAIN st.ac THEN st.order
               ELSE Append(st.order, pattern),
     cd |-> IF date = NoDate THEN st.cd
            ELSE IF pattern \in DOMAIN st.cd
                 THEN [st.cd EXCEPT ![pattern] = @ \cup {date}]
                 ELSE st.cd @@ (pattern :> {date})]

RECURSIVE TrackPatterns(_, _, _, _)
TrackPatterns(pats, k, date, st) ==
    IF k > Len(pats) THEN st
    ELSE TrackPatterns(pats, k + 1, date, TrackPattern(st, pats[k], date))

\* what subprocess.run(['type', cmd_word], shell=True) can do
OracleOutcomes == {"zero", "nonzero", "SubprocessError", "other_exception"}

\* is_valid_command (lines 109-132): the caches answer first; an exception
\* that is not a SubprocessError is not caught
IsCached(cmd_word) == cmd_word \in valid_commands \cup invalid_commands

\* mutation: the oracle is asked every time
is_valid_command_uncached(cmd_word, outcome) == outcome = "zero"

is_valid_command(cmd_word, outcome) ==
    IF cmd_word \in valid_commands THEN TRUE
    ELSE IF cmd_word \in invalid_commands THEN FALSE
    ELSE outcome = "zero"

\* skipped_count += 1; skip_reasons[reason] += 1; continue
Skip(reason) ==
    /\ skipped_count' = skipped_count + 1
    /\ skip_reasons' = CounterInc(skip_reasons, reason)
    /\ UNCHANGED indexVars

\* lines 211-250 of one iteration of the loop of analyze_commands, for an
\* entry whose text cleans to `cleaned` and splits to `parts`, with the
\* outcome the oracle has if it is consulted
AnalyzeCleaned(cleaned, parts, date, outcome) ==
    IF cleaned = None \/ cleaned = << >> \/ parts = << >>
    THEN UNCHANGED <<pc, indexVars, oracleVars, skipVars, oracle_calls>> \* continue
    ELSE IF parts[1] \in shell_constructs
    THEN Skip("shell_construct") /\ UNCHANGED <<pc, oracleVars, oracle_calls>>
    ELSE IF ~IsCached(parts[1]) /\ outcome = "other_exception"
    THEN \* the exception leaves analyze_commands and main
         /\ pc' = "crashed"
         /\ oracle_calls' = CountCalls(oracle_calls, {parts[1]})
         /\ UNCHANGED <<indexVars, oracleVars, skipVars>>
    ELSE
    /\ pc' = pc
    /\ oracle_calls' = IF IsCached(parts[1]) THEN oracle_calls
                       ELSE CountCalls(oracle_calls, {parts[1]})
    /\ valid_commands' =
           IF ~IsCached(parts[1]) /\ outcome = "zero"
           THEN valid_commands \cup {parts[1]} ELSE valid_commands
    /\ invalid_commands' =
           IF ~IsCached(parts[1]) /\ outcome # "zero"
           THEN invalid_commands \cup {parts[1]} ELSE invalid_commands
    /\ IF ~is_valid_command(parts[1], outcome)
       THEN Skip("invalid_command")
       ELSE IF Len(parts[1]) > MaxFirstWord
       THEN Skip("too_long")
       ELSE \E st \in {TrackPatterns(patterns_to_track(cleaned, parts), 1, date,
                                     [ac |-> all_commands, order |-> key_order,
                                      cd |-> command_dates])} :
               /\ all_commands' = st.ac
               /\ key_order' = st.order
               /\ command_dates' = st.cd
               /\ commands' = Append(commands, cleaned)
               /\ UNCHANGED skipVars

\* cleaned = self.clean_command(cmd) and parts = cleaned.split() (lines
\* 210-214), each computed once, then the rest of the iteration
AnalyzeEntry(cmd, date, outcome) ==
    \E cleaned \in {clean_command(cmd)} :
    \E parts \in {IF cleaned = None THEN << >> ELSE split(cleaned)} :
        AnalyzeCleaned(cleaned, parts, date, outcome)

(***************************************************************************)
(* filter_by_temporal_usage (lines 258-275)                                *)
(***************************************************************************)
\* mutation: exactly the threshold is required
MeetsThresholdExact(non_adjacent_days, min_non_adjacent_days) ==
    non_adjacent_days = min_non_adjacent_days

\* if non_adjacent_days >= min_non_adjacent_days
MeetsThreshold(non_adjacent_days, min_non_adjacent_days) ==
    non_adjacent_days >= min_non_adjacent_days

\* the value read by self.command_dates[cmd] on the defaultdict(set)
DatesOf(cd, cmd) == IF cmd \in DOMAIN cd THEN cd[cmd] ELSE {}

Survives(cd, cmd, threshold) ==
    MeetsThreshold(count_non_adjacent_days(DatesOf(cd, cmd)), threshold)

\* the Counter temporal_commands built by the loop of lines 262-265
temporal_commands(ac, cd, threshold) ==
    [cmd \in {c \in DOMAIN ac : Survives(cd, c, threshold)} |-> ac[cmd]]

\* self.command_dates after the loop: reading a missing key of a
\* defaultdict inserts it with an empty set
DatesAfterLookups(ac, cd) ==
    [cmd \in DOMAIN cd \cup DOMAIN ac |-> DatesOf(cd, cmd)]

(***************************************************************************)
(* analyze_root_commands (lines 277-337)                                   *)
(***************************************************************************)
\* if ' ' in cmd
MultiWord(cmd) == " " \in Range(cmd)

\* cmd.split()[0]
RootOf(cmd) == split(cmd)[1]

\* (len(cmd) - 2) * count
savings_potential(cmd, count) == (Len(cmd) - 2) * count

RECURSIVE RootsFrom(_, _, _)
\* the keys of root_groups in insertion order
RootsFrom(order, k, acc) ==
    IF k > Len(order) THEN acc
    ELSE RootsFrom(order, k + 1,
                   IF MultiWord(order[k]) /\ RootOf(order[k]) \notin Range(acc)
                   THEN Append(acc, RootOf(order[k])) ELSE acc)

\* root_groups[root]: the multi-word commands of the root, in key order
GroupOf(order, root) ==
    LET InGroup(cmd) == MultiWord(cmd) /\ RootOf(cmd) = root
    IN  SelectSeq(order, InGroup)

RECURSIVE SumCounts(_, _)
\* sum(cmd['count'] for cmd in commands)
SumCounts(ac, cmds) ==
    IF cmds = << >> THEN 0 ELSE ac[Head(cmds)] + SumCounts(ac, Tail(cmds))

RECURSIVE SumSavings(_, _)
\* sum(cmd['savings_potential'] for cmd in commands)
SumSavings(ac, cmds) ==
    IF cmds = << >> THEN 0
    ELSE savings_potential(Head(cmds), ac[Head(cmds)]) + SumSavings(ac, Tail(cmds))

\* self.all_commands.get(root, 0)
root_usage(ac, root) == IF root \in DOMAIN ac THEN ac[root] ELSE 0

root_alias_savings(ac, root, cmds) ==
    IF root_usage(ac, root) > 0
    THEN (Len(root) - 1) * (root_usage(ac, root) + SumCounts(ac, cmds))
    ELSE 0

\* mutation: the simplicity bonus is forgotten
RootWinsNoBonus(root_savings, pattern_savings) == root_savings > pattern_savings

\* root_alias_savings > pattern_alias_savings * 1.2.  Both savings are
\* integers; the double nearest to 1.2 times an integer below 2^50 lies on
\* the same side of every integer as the exact product (and equals 6k for
\* the integer 5k), so the float comparison is the comparison 5r > 6p.
RootWins(root_savings, pattern_savings) == 5 * root_savings > 6 * pattern_savings

\* mutation: a root alias needs 7 uses
MinRootUsageHigh == 5 + 2

\* if root_usage + total_pattern_usage >= 5
MinRootUsage == 5

\* mutation: aliases for commands used twice
PatternQualifiesTwice(count) == count >= 2

\* if cmd['count'] >= 3
PatternQualifies(count) == count >= 3

placeholder == <<"p", "l", "a", "c", "e", "h", "o", "l", "d", "e", "r">>

RECURSIVE PatternRecs(_, _)
\* the loop of lines 326-335
PatternRecs(ac, cmds) ==
    IF cmds = << >> THEN << >>
    ELSE (IF PatternQualifies(ac[Head(cmds)])
          THEN << [type |-> "pattern",
                   original |-> Head(cmds),
                   alias |-> placeholder,
                   count |-> ac[Head(cmds)],
                   savings |-> savings_potential(Head(cmds), ac[Head(cmds)]),
                   patterns |-> <<Head(cmds)>>] >>
          ELSE << >>)
         \o PatternRecs(ac, Tail(cmds))

\* one iteration of the loop over root_groups (lines 294-335)
RootGroupRecs(ac, order, root) ==
    LET cmds == GroupOf(order, root)
        usage == root_usage(ac, root) + SumCounts(ac, cmds)
    IN  IF RootWins(root_alias_savings(ac, root, cmds), SumSavings(ac, cmds))
        THEN IF usage >= MinRootUsage
             THEN << [type |-> "root",
                      original |-> root,
                      alias |-> <<root[1]>>,
                      count |-> usage,
                      savings |-> root_alias_savings(ac, root, cmds),
                      patterns |-> cmds] >>
             ELSE << >>
        ELSE PatternRecs(ac, cmds)

RECURSIVE RecsOfRoots(_, _, _)
RecsOfRoots(ac, order, roots) ==
    IF roots = << >> THEN << >>
    ELSE RootGroupRecs(ac, order, Head(roots)) \o RecsOfRoots(ac, order, Tail(roots))

analyze_root_commands(ac, order) ==
    RecsOfRoots(ac, order, RootsFrom(order, 1, << >>))

(***************************************************************************)
(* Actions of a run: main() calls analyze_commands, which ingests every    *)
(* entry and then filters, and then calculate_temporal_savings, which      *)
(* starts with analyze_root_commands.                                      *)
(***************************************************************************)
otherVars == <<daysVars, cleanVars, nameVars, histVars, orderVars, planVars>>
\* (the actions of the run after the loop make no oracle call)

\* filter_by_temporal_usage(min_days), called when the loop is over
Filter ==
    /\ pc = "ingest"
    /\ entries = << >>
    /\ all_commands' = temporal_commands(all_commands, command_dates, min_days)
    /\ key_order' = LET Kept(cmd) == Survives(command_dates, cmd, min_days)
                    IN  SelectSeq(key_order, Kept)
    /\ command_dates' = DatesAfterLookups(all_commands, command_dates)
    /\ pc' = "filtered"
    /\ UNCHANGED <<entries, processed, argVars, commands, oracleVars, skipVars,
                   alias_recommendations, otherVars, oracle_calls>>

\* parser.add_argument('--min-count', type=int, default=3)
DefaultMinCount == 3

\* alias_recommendations = self.analyze_root_commands(), the first step of
\* calculate_temporal_savings (line 727)
PlanAliases ==
    /\ alias_recommendations' = analyze_root_commands(all_commands, key_order)
    /\ pc' = "planned"
    /\ UNCHANGED <<entries, processed, argVars, indexVars, oracleVars, skipVars,
                   otherVars, oracle_calls>>

AnalyzeRoot ==
    /\ pc = "filtered"
    /\ PlanAliases

(***************************************************************************)
(* Specification Spec: runs over every small history.                      *)
(***************************************************************************)
abc == <<"a", "b", "c">>

\* the command lines of the small histories
Lines ==
    { abc,                                              \* abc
      abc \o <<" ", "x">>,                              \* abc x
      abc \o <<" ", " ", "x", "|", "y">>,               \* abc  x|y
      <<"i", "f", " ", "x">>,                           \* if x
      <<"#", "c">> }                                    \* #c

RunStart ==
    /\ pc = "ingest"
    /\ processed = 0
    /\ commands = << >>
    /\ all_commands = EmptyDict
    /\ key_order = << >>
    /\ command_dates = EmptyDict
    /\ valid_commands = {}
    /\ invalid_commands = {}
    /\ skipped_count = 0
    /\ skip_reasons = EmptyDict
    /\ alias_recommendations = << >>
    /\ oracle_calls = EmptyDict
    /\ OrderIdle
    /\ PlanIdle
    /\ DaysIdle
    /\ CleanIdle
    /\ NamesIdle

Init ==
    /\ RunStart
    /\ HistIdle
    /\ entries = << >>
    /\ min_days \in 0..MaxThreshold
    /\ min_count = DefaultMinCount

\* the loop takes the next entry of the history, whatever it is
IngestEntry ==
    /\ pc = "ingest"
    /\ processed < MaxLog
    /\ \E cmd \in Lines : \E date \in 0..MaxDate : \E outcome \in OracleOutcomes :
          AnalyzeEntry(cmd, date, outcome)
    /\ processed' = processed + 1
    /\ UNCHANGED <<entries, argVars, alias_recommendations, otherVars>>

Next == IngestEntry \/ Filter \/ AnalyzeRoot

Spec == Init /\ [][Next]_vars

\* C3: the filter keeps exactly the patterns of the index whose recorded
\* dates have at least min_days non-adjacent days, with their counts, and
\* leaves command_dates as it was.
C3_FilterExact ==
    [][(pc = "ingest" /\ pc' = "filtered") =>
         /\ \A p \in DOMAIN all_commands \cup DOMAIN all_commands' :
               p \in DOMAIN all_commands' <=>
                  /\ p \in DOMAIN all_commands
                  /\ count_non_adjacent_days(DatesOf(command_dates, p)) >= min_days
         /\ \A p \in DOMAIN all_commands' : all_commands'[p] = all_commands[p]
         /\ command_dates' = command_dates]_vars

\* C4: the patterns that survive the filter with threshold N also survive
\* it with every smaller threshold on the same index.
C4_Monotonic ==
    [][(pc = "ingest" /\ pc' = "filtered") =>
         \A n \in 0..min_days :
            DOMAIN all_commands'
               \subseteq DOMAIN temporal_commands(all_commands, command_dates, n)]_vars

C4_Witness ==
    /\ pc = "filtered"
    /\ min_days = 2
    /\ all_commands # EmptyDict
    /\ \E p \in DOMAIN command_dates \ DOMAIN all_commands :
          count_non_adjacent_days(command_dates[p]) = 1

RECURSIVE SetSum(_, _)
\* the sum of weight[x] over the elements x of S
SetSum(S, weight) ==
    IF S = {} THEN 0
    ELSE LET x == CHOOSE y \in S : TRUE IN weight[x] + SetSum(S \ {x}, weight)

\* the multi-word patterns of the index that start with the token root
PatternsOfRoot(root) ==
    {c \in DOMAIN all_commands : MultiWord(c) /\ RootOf(c) = root}

\* root_savings = (len(root) - 1) * (root_usage + sum of pattern counts)
RootSavingsOf(root) ==
    (Len(root) - 1)
      * ((IF root \in DOMAIN all_commands THEN all_commands[root] ELSE 0)
         + SetSum(PatternsOfRoot(root), all_commands))

\* pattern_savings = sum over patterns of (len(pattern) - 2) * count
PatternSavingsOf(root) ==
    SetSum(PatternsOfRoot(root),
           [c \in PatternsOfRoot(root) |-> (Len(c) - 2) * all_commands[c]])

\* C6: no root recommendation for a root with
\* root_savings <= 1.2 * pattern_savings, and no pattern recommendation for
\* a command whose count is below 3.
C6_AliasThresholds ==
    pc = "planned" =>
        \A i \in 1..Len(alias_recommendations) :
            LET rec == alias_recommendations[i] IN
            /\ rec.type = "root" =>
                 5 * RootSavingsOf(rec.original) > 6 * PatternSavingsOf(rec.original)
            /\ rec.type = "pattern" => all_commands[rec.original] >= 3

\* a pattern recommendation next to a multi-word command that is used less
\* than 3 times and is not recommended
C6_Witness ==
    /\ pc = "planned"
    /\ \E i \in 1..Len(alias_recommendations) :
          alias_recommendations[i].type = "pattern"
    /\ \E c \in DOMAIN all_commands :
          /\ MultiWord(c)
          /\ all_commands[c] < 3
          /\ \A i \in 1..Len(alias_recommendations) :
                alias_recommendations[i].original # c

\* the pattern set of an accepted line: the full cleaned line, its first
\* token, and its first-k-token prefixes for k = 2..min(5, token count)
PatternSet(line) ==
    {line, split(line)[1]}
      \cup {join(SubSeq(split(line), 1, k)) : k \in 2..Min(5, Len(split(line)))}

\* C8: before the filter, the count of every pattern is the number of
\* accepted lines whose pattern set contains it.
C8_CountOncePerLine ==
    pc = "ingest" =>
        \A p \in DOMAIN all_commands :
            all_commands[p]
              = Cardinality({k \in 1..Len(commands) : p \in PatternSet(commands[k])})

\* C13: whatever the oracle does for the first token of an entry (an
\* exception of any kind included), the iteration of the loop that takes
\* the entry ends in the loop, ready for the next entry: the run is not
\* aborted, and the caches keep what they held.
C13_OracleFailureContained ==
    [][(pc = "ingest" /\ processed' # processed) =>
          /\ pc' = "ingest"
          /\ valid_commands \subseteq valid_commands'
          /\ invalid_commands \subseteq invalid_commands']_vars

\* C15: while the loop of analyze_commands runs, skipped_count is the sum
\* of the counts of the skip reasons, and every entry taken so far is
\* either in self.commands or counted as skipped.
C15_EverySkipCounted ==
    pc = "ingest" =>
        /\ skipped_count = SetSum(DOMAIN skip_reasons, skip_reasons)
        /\ Len(commands) + skipped_count = processed

(***************************************************************************)
(* Specification SpecDeploy: the end-to-end scenario.  The history holds   *)
(* `deploy service A` on 6 dates and `deploy service B` on 4 dates, the    *)
(* dates of each command pairwise at least 2 days apart, in chronological  *)
(* order; the oracle accepts `deploy`; the threshold is the default 5.     *)
(***************************************************************************)
deploy_service_A ==
    <<"d", "e", "p", "l", "o", "y", " ", "s", "e", "r", "v",
       "i", "c", "e", " ", "A">>

deploy_service_B ==
    <<"d", "e", "p", "l", "o", "y", " ", "s", "e", "r", "v",
       "i", "c", "e", " ", "B">>

deploy_service == SubSeq(deploy_service_A, 1, 14)

deploy == SubSeq(deploy_service_A, 1, 6)

\* default of --min-days and of analyze_commands
DefaultMinDays == 5

\* the dates of S are pairwise at least 2 days apart
Spaced(S) == \A a \in S : \A b \in S : a < b => b - a >= 2

SpacedSets(n) ==
    {S \in SUBSET (1..MaxDeployDay) : Cardinality(S) = n /\ Spaced(S)}

RECURSIVE DeployLogFrom(_, _, _, _)
\* the entries of the history from day d on
DeployLogFrom(d, datesA, datesB, b_first) ==
    IF d > MaxDeployDay THEN << >>
    ELSE LET a == IF d \in datesA THEN <<[cmd |-> deploy_service_A, date |-> d]>>
                  ELSE << >>
             b == IF d \in datesB THEN <<[cmd |-> deploy_service_B, date |-> d]>>
                  ELSE << >>
         IN  (IF b_first THEN b \o a ELSE a \o b)
               \o DeployLogFrom(d + 1, datesA, datesB, b_first)

InitDeploy ==
    /\ RunStart
    /\ HistIdle
    /\ min_days = DefaultMinDays
    /\ min_count = DefaultMinCount
    /\ \E datesA \in SpacedSets(6) : \E datesB \in SpacedSets(4) :
       \E b_first \in BOOLEAN :
          entries = DeployLogFrom(1, datesA, datesB, b_first)

\* the loop takes the next entry of the given history; the oracle, if
\* consulted, finds the command
IngestLogged ==
    /\ pc = "ingest"
    /\ entries # << >>
    /\ AnalyzeEntry(Head(entries).cmd, Head(entries).date, "zero")
    /\ entries' = Tail(entries)
    /\ processed' = processed + 1
    /\ UNCHANGED <<argVars, alias_recommendations, otherVars>>

NextDeploy == IngestLogged \/ Filter \/ AnalyzeRoot

SpecDeploy == InitDeploy /\ [][NextDeploy]_vars

\* C9: in the scenario, after analyze_commands with threshold 5,
\* `deploy service A` is in the surviving index and `deploy service B` is
\* not.
C9_DeployScenario ==
    pc \in {"filtered", "planned"} =>
        /\ deploy_service_A \in DOMAIN all_commands
        /\ deploy_service_B \notin DOMAIN all_commands

C9_Witness ==
    /\ pc = "filtered"
    /\ processed = 10
    /\ deploy_service_A \in DOMAIN all_commands
    /\ count_non_adjacent_days(command_dates[deploy_service_B]) = 4

\* the accepted lines whose command survived the filter
SurvivingLines ==
    SelectSeq(commands, LAMBDA line : line \in DOMAIN all_commands)

\* the number of times pattern p is tracked for the line
TimesTracked(p, line) ==
    Cardinality({k \in 1..Len(patterns_to_track(line, split(line))) :
                     patterns_to_track(line, split(line))[k] = p})

RECURSIVE UsageFrom(_, _)
\* the count pattern p gets from the given lines alone
UsageFrom(p, lines) ==
    IF lines = << >> THEN 0
    ELSE TimesTracked(p, Head(lines)) + UsageFrom(p, Tail(lines))

RECURSIVE UsageOfAllFrom(_, _)
UsageOfAllFrom(ps, lines) ==
    IF ps = << >> THEN 0
    ELSE UsageFrom(Head(ps), lines) + UsageOfAllFrom(Tail(ps), lines)

\* C10: the usage count of every alias recommendation comes only from
\* occurrences of commands that survived the filter; in the scenario no
\* recommendation on the root `deploy` counts the occurrences of
\* `deploy service B`.
C10_OnlySurvivorsCounted ==
    pc = "planned" =>
        \A i \in 1..Len(alias_recommendations) :
            LET rec == alias_recommendations[i] IN
            rec.count =
                (IF rec.type = "root" THEN UsageFrom(rec.original, SurvivingLines)
                 ELSE 0)
                + UsageOfAllFrom(rec.patterns, SurvivingLines)

(***************************************************************************)
(* parse_timestamp (lines 98-105) and read_history (lines 134-163)         *)
(***************************************************************************)
\* the value of a decimal digit character
DigitValue(c) == (CHOOSE i \in DOMAIN DigitChars : DigitChars[i] = c) - 1

IsDigit(c) == c \in Range(DigitChars)

RECURSIVE DigitRunEnd(_, _)
\* index after the run of digits of s that starts at i: the greedy \d+
DigitRunEnd(s, i) ==
    IF i <= Len(s) /\ IsDigit(s[i]) THEN DigitRunEnd(s, i + 1) ELSE i

\* re.match(r'^#(\d+)', line.strip()): group(1), or None without a match;
\* the text after the digits is not looked at
timestamp_match(line) ==
    LET s == strip(line)
    IN  IF Len(s) >= 2 /\ s[1] = "#" /\ IsDigit(s[2])
        THEN SubSeq(s, 2, DigitRunEnd(s, 2) - 1)
        ELSE None

SecondsPerDay == 86400
\* date(1970, 1, 1).toordinal() and date.max.toordinal()
EpochOrdinal == 719163
MaxOrdinal == 3652059

\* fromtimestamp() of a timestamp past the year 9999 raises an exception
OutOfRange == -1

RECURSIVE DaysOfDigits(_, _, _, _)
\* int(digits) // SecondsPerDay by long division, the quotient saturating at
\* the first day number past date.max
DaysOfDigits(digits, k, quotient, remainder) ==
    IF k > Len(digits) THEN quotient
    ELSE LET n == remainder * 10 + DigitValue(digits[k])
             q == quotient * 10 + n \div SecondsPerDay
             cap == MaxOrdinal - EpochOrdinal + 1
         IN  DaysOfDigits(digits, k + 1, IF q > cap THEN cap ELSE q,
                          n % SecondsPerDay)

\* datetime.fromtimestamp(int(digits)).date() on a host whose zone is UTC
fromtimestamp_date(digits) ==
    LET ordinal == EpochOrdinal + DaysOfDigits(digits, 1, 0, 0)
    IN  IF ordinal > MaxOrdinal THEN OutOfRange ELSE ordinal

\* parse_timestamp(line): a date, NoDate for None, or OutOfRange when
\* fromtimestamp raises
parse_timestamp(line) ==
    LET digits == timestamp_match(line)
    IN  IF digits = None THEN NoDate ELSE fromtimestamp_date(digits)

\* one iteration of `for line in lines` (lines 146-157); an exception of
\* parse_timestamp is caught by the except of line 160, which ends the loop
ReadLine ==
    /\ pc = "read_history"
    /\ line_no <= Len(file_lines)
    /\ \E line \in {strip(file_lines[line_no])} :
       \E date \in {parse_timestamp(line)} :
          IF line = << >>
          THEN /\ line_no' = line_no + 1                       \* continue
               /\ UNCHANGED <<pc, current_date, history_entries>>
          ELSE IF date = OutOfRange
          THEN /\ pc' = "read_failed"
               /\ UNCHANGED <<line_no, current_date, history_entries>>
          ELSE IF date # NoDate
          THEN /\ current_date' = date
               /\ line_no' = line_no + 1
               /\ UNCHANGED <<pc, history_entries>>
          ELSE /\ history_entries' =
                     Append(history_entries, <<line, current_date>>)
               /\ line_no' = line_no + 1
               /\ UNCHANGED <<pc, current_date>>
    /\ UNCHANGED <<file_lines, daysVars, cleanVars, nameVars, runVars, orderVars, planVars, oracle_calls>>

\* the loop is over: print and return history_entries (lines 159, 163)
EndOfFile ==
    /\ pc = "read_history"
    /\ line_no > Len(file_lines)
    /\ pc' = "read_done"
    /\ UNCHANGED <<histVars, daysVars, cleanVars, nameVars, runVars, orderVars, planVars, oracle_calls>>

(***************************************************************************)
(* Specification SpecHistory: read_history on every small history file.    *)
(***************************************************************************)
\* the lines of the small history files (without their line ends)
FileLines ==
    { << >>,                                            \* an empty line
      <<" ">>,                                          \* a blank line
      <<"l", "s">>,                                     \* ls
      <<" ", "l", "s", " ">>,                           \*  ls
      <<"#", "0">>,                                     \* #0
      <<"#", "8", "6", "4", "0", "0">>,                 \* #86400
      <<"#", "x">>,                                     \* #x
      [i \in 1..14 |-> IF i = 1 THEN "#" ELSE "9"] }    \* #9999999999999

RECURSIVE SeqsUpTo(_, _)
\* the sequences of at most n elements of S
SeqsUpTo(S, n) ==
    IF n = 0 THEN { << >> }
    ELSE LET shorter == SeqsUpTo(S, n - 1)
         IN  shorter \cup {Append(q, x) : q \in shorter, x \in S}

ReadStart ==
    /\ pc = "read_history"
    /\ line_no = 1
    /\ current_date = NoDate
    /\ history_entries = << >>

InitHistory ==
    /\ ReadStart
    /\ file_lines \in SeqsUpTo(FileLines, MaxFile)
    /\ oracle_calls = EmptyDict
    /\ OrderIdle
    /\ PlanIdle
    /\ DaysIdle
    /\ CleanIdle
    /\ NamesIdle
    /\ RunIdle

NextHistory == ReadLine \/ EndOfFile

SpecHistory == InitHistory /\ [][NextHistory]_vars

\* a line that Python's `if not line` skips after strip()
IsBlankLine(line) == strip(line) = << >>

\* a line of the form #<digits>..., which parse_timestamp reads as a timestamp
IsTimestampLine(line) == timestamp_match(line) # None

RECURSIVE PairedFrom(_, _, _)
\* the command lines of `lines` from index k on, each with the date of the
\* most recent timestamp line before it, `context` being that date at k
PairedFrom(lines, k, context) ==
    IF k > Len(lines) THEN << >>
    ELSE IF IsBlankLine(lines[k]) THEN PairedFrom(lines, k + 1, context)
    ELSE IF IsTimestampLine(lines[k])
    THEN PairedFrom(lines, k + 1, fromtimestamp_date(timestamp_match(lines[k])))
    ELSE <<<<strip(lines[k]), context>>>> \o PairedFrom(lines, k + 1, context)

\* C11: when read_history returns, every command line of the file is an
\* entry paired with the date of the most recent timestamp line before it
\* (no date when there is none), in file order, and no timestamp line or
\* blank line is an entry.
C11_PairedWithLastTimestamp ==
    pc \in {"read_done", "read_failed"} =>
        history_entries = PairedFrom(file_lines, 1, NoDate)

(***************************************************************************)
(* main() (lines 1120-1146): read_history, analyze_commands, the three     *)
(* summaries and calculate_temporal_savings, one after the other.          *)
(***************************************************************************)
\* the entries (line, date) of read_history as the loop of analyze_commands
\* takes them: `for cmd, date in command_entries`
EntriesOf(history) ==
    [i \in 1..Len(history) |-> [cmd |-> history[i][1], date |-> history[i][2]]]

\* `if not command_entries: ... return`
NoHistory ==
    /\ pc \in {"read_done", "read_failed"}
    /\ history_entries = << >>
    /\ pc' = "returned"
    /\ UNCHANGED <<histVars, daysVars, cleanVars, nameVars, runVars, orderVars, planVars, oracle_calls>>

\* analyzer.analyze_commands(command_entries, args.min_days) is entered
StartAnalysis ==
    /\ pc \in {"read_done", "read_failed"}
    /\ history_entries # << >>
    /\ entries' = EntriesOf(history_entries)
    /\ pc' = "ingest"
    /\ UNCHANGED <<processed, argVars, indexVars, oracleVars, skipVars,
                   alias_recommendations, otherVars, oracle_calls>>

\* the loop takes the next entry of the history that was read; the oracle,
\* if it is consulted, does any of the things it can do
IngestNext ==
    /\ pc = "ingest"
    /\ entries # << >>
    /\ \E outcome \in OracleOutcomes :
          AnalyzeEntry(Head(entries).cmd, Head(entries).date, outcome)
    /\ entries' = Tail(entries)
    /\ processed' = processed + 1
    /\ UNCHANGED <<argVars, alias_recommendations, otherVars>>

\* generate_executive_summary (lines 1095-1117): the repetition rate divides
\* by len(self.commands), the filter effectiveness by total_processed
ExecutiveSummary ==
    /\ pc = "filtered"
    /\ LET total_commands == Len(commands)
           total_processed == total_commands + skipped_count
       IN  pc' = IF total_commands = 0 \/ total_processed = 0
                 THEN "ZeroDivisionError"
                 ELSE "summarised"
    /\ UNCHANGED <<runVars, otherVars, oracle_calls>>

\* show_temporal_summary (lines 1046-1072) prints counts and the date range
TemporalSummary ==
    /\ pc = "summarised"
    /\ pc' = "temporal_shown"
    /\ UNCHANGED <<runVars, otherVars, oracle_calls>>

\* show_top_recurring_commands (lines 1074-1093): every single-word pattern
\* of the index (the histories here have fewer than 15) has its dates looked
\* up in the defaultdict and its count divided by len(self.commands)
TopRecurring ==
    /\ pc = "temporal_shown"
    /\ LET single_word_commands == {cmd \in DOMAIN all_commands : ~MultiWord(cmd)}
       IN  IF single_word_commands # {} /\ Len(commands) = 0
           THEN /\ pc' = "ZeroDivisionError"
                /\ UNCHANGED command_dates
           ELSE /\ pc' = "top_shown"
                /\ command_dates' =
                      [cmd \in DOMAIN command_dates \cup single_word_commands |->
                          DatesOf(command_dates, cmd)]
    /\ UNCHANGED <<entries, processed, argVars, commands, all_commands, key_order,
                   oracleVars, skipVars, alias_recommendations, otherVars,
                   oracle_calls>>

\* calculate_temporal_savings: the alias recommendations (line 727); the
\* average of line 872 is computed only `if total_commands_affected > 0`
SavingsAnalysis ==
    /\ pc = "top_shown"
    /\ PlanAliases

(***************************************************************************)
(* Specification SpecMain: main() on every small history file, with every  *)
(* answer of the oracle.                                                   *)
(***************************************************************************)
\* a first token of 51 characters
long_token == [i \in 1..(MaxFirstWord + 1) |-> "x"]

MainLines ==
    { <<"#", "8", "6", "4", "0", "0">>,                 \* #86400
      <<"#", "x">>,                                     \* #x
      <<"#", "1", "x">>,                                \* #1x
      abc \o <<" ", "x">>,                              \* abc x
      <<"i", "f", " ", "x">>,                           \* if x
      long_token }

\* values of --min-days on the small files
MainMinDays == {0, 1}

InitMain ==
    /\ ReadStart
    /\ file_lines \in SeqsUpTo(MainLines, MaxMainFile)
    /\ min_days \in MainMinDays
    /\ min_count \in DefaultMinCount..MaxMinCount
    /\ entries = << >>
    /\ processed = 0
    /\ commands = << >>
    /\ all_commands = EmptyDict
    /\ key_order = << >>
    /\ command_dates = EmptyDict
    /\ valid_commands = {}
    /\ invalid_commands = {}
    /\ skipped_count = 0
    /\ skip_reasons = EmptyDict
    /\ alias_recommendations = << >>
    /\ oracle_calls = EmptyDict
    /\ OrderIdle
    /\ PlanIdle
    /\ DaysIdle
    /\ CleanIdle
    /\ NamesIdle

NextMain ==
    \/ ReadLine
    \/ EndOfFile
    \/ NoHistory
    \/ StartAnalysis
    \/ IngestNext
    \/ Filter
    \/ ExecutiveSummary
    \/ TemporalSummary
    \/ TopRecurring
    \/ SavingsAnalysis

SpecMain == InitMain /\ [][NextMain]_vars

\* C16: every pattern-level alias recommendation of a run has a usage count
\* of at least the --min-count the run was given.
C16_MinCountRespected ==
    pc = "planned" =>
        \A i \in 1..Len(alias_recommendations) :
            alias_recommendations[i].type = "pattern"
               => alias_recommendations[i].count >= min_count

\* C17: no computation of the summaries of a run divides by zero, also when
\* no entry of a non-empty history was accepted.
C17_NoDivisionByZero == pc # "ZeroDivisionError"

\* a line that starts with `#` and is not `#` followed by a run of digits
IsMalformedTimestamp(line) ==
    LET s == strip(line)
    IN  /\ s # << >>
        /\ s[1] = "#"
        /\ \/ Len(s) = 1
           \/ \E i \in 2..Len(s) : ~IsDigit(s[i])

\* C18: a line that starts with `#` and is not `#<digits>` leaves the date
\* context as it is and becomes an entry with that date; when the loop of
\* analyze_commands takes the entry it applies the checks of a command line
\* to it: the oracle is asked about its first token (which is no keyword)
\* and the entry is then accepted or counted as skipped.
C18_MalformedTimestampIsCommand ==
    [][/\ (/\ pc = "read_history"
           /\ line_no <= Len(file_lines)
           /\ IsMalformedTimestamp(file_lines[line_no])
           /\ line_no' # line_no)
          => /\ current_date' = current_date
             /\ history_entries' =
                   Append(history_entries,
                          <<strip(file_lines[line_no]), current_date>>)
       /\ (/\ pc = "ingest"
           /\ entries # << >>
           /\ IsMalformedTimestamp(Head(entries).cmd)
           /\ processed' # processed
           /\ pc' # "crashed")
          => /\ split(Head(entries).cmd)[1]
                   \in valid_commands' \cup invalid_commands'
             /\ Len(commands') + skipped_count'
                   = Len(commands) + skipped_count + 1]_vars

\* the first token of the line is longer than 50 characters (and so is not
\* a shell keyword)
HasLongFirstToken(cmd) ==
    LET parts == split(strip(cmd))
    IN  /\ parts # << >>
        /\ parts[1][1] # "#"
        /\ parts[1] \notin shell_constructs
        /\ Len(parts[1]) > MaxFirstWord

\* C19: an entry whose first token is longer than 50 characters is rejected
\* as too_long, whatever the oracle answers: the index and self.commands
\* are as before and skip_reasons['too_long'] is one higher.
C19_LongTokenIsTooLong ==
    [][(/\ pc = "ingest"
        /\ entries # << >>
        /\ HasLongFirstToken(Head(entries).cmd)
        /\ processed' # processed
        /\ pc' # "crashed")
       => /\ all_commands' = all_commands
          /\ commands' = commands
          /\ skip_reasons' = CounterInc(skip_reasons, "too_long")]_vars

(***************************************************************************)
(* Specification SpecOrder: the same entries analysed twice on the same    *)
(* host, by analyze_commands and analyze_root_commands, the second time in *)
(* another order.                                                          *)
(***************************************************************************)
abcd == <<"a", "b", "c", "d">>

OrderLines ==
    { abcd,                                             \* abcd
      abcd \o <<" ", "x">>,                             \* abcd x
      abcd \o <<" ", "y">> }                            \* abcd y

\* an entry has no date or the date 1
OrderEntries == [cmd : OrderLines, date : {NoDate, 1}]

\* the first tokens the host may or may not know
OrderHost == { abcd }

\* the permutations of 1..n
Orderings(n) ==
    {f \in [1..n -> 1..n] : \A i \in 1..n : \E j \in 1..n : f[j] = i}

Reordered(seq, f) == [i \in 1..Len(seq) |-> seq[f[i]]]

\* cmd_word of the entry: the first word of the cleaned text
FirstWordOf(cmd) ==
    LET cleaned == clean_command(cmd)
    IN  IF cleaned = None \/ split(cleaned) = << >> THEN << >>
        ELSE split(cleaned)[1]

\* `type` on a host that answers, with the same answer each time
HostOutcome(cmd_word) == IF cmd_word \in installed THEN "zero" ELSE "nonzero"

InitOrder ==
    /\ pc = "ingest"
    /\ entries \in SeqsUpTo(OrderEntries, MaxOrderLog)
    /\ \E f \in Orderings(Len(entries)) : permuted = Reordered(entries, f)
    /\ first_run = NoRun
    /\ installed \in SUBSET OrderHost
    /\ min_days \in MainMinDays
    /\ min_count = DefaultMinCount
    /\ processed = 0
    /\ commands = << >>
    /\ all_commands = EmptyDict
    /\ key_order = << >>
    /\ command_dates = EmptyDict
    /\ valid_commands = {}
    /\ invalid_commands = {}
    /\ skipped_count = 0
    /\ skip_reasons = EmptyDict
    /\ alias_recommendations = << >>
    /\ oracle_calls = EmptyDict
    /\ used_names = {}
    /\ type_raises = {}
    /\ requests = 0
    /\ last_call = [base |-> << >>, used |-> {}, result |-> << >>]
    /\ PlanIdle
    /\ DaysIdle
    /\ CleanIdle
    /\ HistIdle

\* the loop takes the next entry; the oracle answers as the host does
IngestInOrder ==
    /\ pc = "ingest"
    /\ entries # << >>
    /\ \E outcome \in {HostOutcome(FirstWordOf(Head(entries).cmd))} :
          AnalyzeEntry(Head(entries).cmd, Head(entries).date, outcome)
    /\ entries' = Tail(entries)
    /\ processed' = processed + 1
    /\ UNCHANGED <<argVars, alias_recommendations, otherVars>>

\* the results of the run are kept, and a new TemporalAnalyzer is given the
\* same entries in the other order
RunReordered ==
    /\ pc = "planned"
    /\ ~first_run.done
    /\ first_run' = [done |-> TRUE,
                     commands |-> commands,
                     all_commands |-> all_commands,
                     key_order |-> key_order,
                     command_dates |-> command_dates,
                     recommendations |-> alias_recommendations]
    /\ entries' = permuted
    /\ pc' = "ingest"
    /\ processed' = 0
    /\ commands' = << >>
    /\ all_commands' = EmptyDict
    /\ key_order' = << >>
    /\ command_dates' = EmptyDict
    /\ valid_commands' = {}
    /\ invalid_commands' = {}
    /\ skipped_count' = 0
    /\ skip_reasons' = EmptyDict
    /\ alias_recommendations' = << >>
    /\ oracle_calls' = EmptyDict
    /\ UNCHANGED <<permuted, argVars, daysVars, cleanVars, nameVars, histVars,
                   planVars>>

NextOrder == IngestInOrder \/ Filter \/ AnalyzeRoot \/ RunReordered

SpecOrder == InitOrder /\ [][NextOrder]_vars

\* a recommendation, the list of its patterns taken as a set
RecKey(rec) ==
    [type |-> rec.type, original |-> rec.original, alias |-> rec.alias,
     count |-> rec.count, savings |-> rec.savings,
     patterns |-> Range(rec.patterns)]

RecSet(recs) == {RecKey(recs[i]) : i \in DOMAIN recs}

prefix_lengths == <<3, 4, 5>>

\* ' '.join(parts[:prefix_len])
PrefixOf(cmd, prefix_len) == join(SubSeq(split(cmd), 1, prefix_len))

\* 'remaining': ' '.join(parts[prefix_len:]) if len(parts) > prefix_len
\* else ''
RemainingOf(cmd, prefix_len) ==
    LET parts == split(cmd) IN
    IF Len(parts) > prefix_len
    THEN join(SubSeq(parts, prefix_len + 1, Len(parts)))
    ELSE << >>

\* the prefixes under which the loop of lines 344-356 files a command, in
\* the order of the loop
PrefixesOf(cmd) ==
    IF MultiWord(cmd) /\ Len(split(cmd)) >= 3
    THEN LET Fits(n) == Len(split(cmd)) >= n
             lengths == SelectSeq(prefix_lengths, Fits)
         IN  [i \in 1..Len(lengths) |-> PrefixOf(cmd, lengths[i])]
    ELSE << >>

RECURSIVE AppendNew(_, _)
\* the keys of a dict after the keys of items are inserted in order
AppendNew(acc, items) ==
    IF items = << >> THEN acc
    ELSE AppendNew(IF Head(items) \in Range(acc) THEN acc
                   ELSE Append(acc, Head(items)),
                   Tail(items))

RECURSIVE PrefixKeys(_, _)
\* the keys of prefix_groups in insertion order
PrefixKeys(order, acc) ==
    IF order = << >> THEN acc
    ELSE PrefixKeys(Tail(order), AppendNew(acc, PrefixesOf(Head(order))))

\* prefix_groups[prefix]: the commands filed under the prefix, in key order
\* (a command has one prefix of each length, so it is filed at most once)
PrefixGroup(order, prefix) ==
    LET Member(cmd) == prefix \in Range(PrefixesOf(cmd))
    IN  SelectSeq(order, Member)

\* len(set(cmd['remaining'] for cmd in commands if cmd['remaining']))
unique_suffixes(cmds, prefix) ==
    Cardinality({RemainingOf(cmds[i], Len(split(prefix))) : i \in DOMAIN cmds}
                  \ {<< >>})

\* if len(commands) < 2: continue
MinVariations == 2

\* if total_usage >= 10 and unique_suffixes >= 2
MinFunctionUsage == 10
MinUniqueSuffixes == 2

\* func_call_len = len(f"{func_name} ") with func_name = 'placeholder'
func_call_len == Len(placeholder) + 1

MaxOf(S) == CHOOSE x \in S : \A y \in S : y <= x

\* self.command_dates.get(cmd, set()) for every command of the group
AllDatesOf(cd, cmds) == UNION {DatesOf(cd, cmds[i]) : i \in DOMAIN cmds}

\* one iteration of the loop over prefix_groups (lines 361-401)
FunctionRecsOf(ac, cd, order, prefix) ==
    LET cmds == PrefixGroup(order, prefix)
        total_usage == SumCounts(ac, cmds)
        chars_saved_per_use == Len(prefix) - func_call_len
        all_dates == AllDatesOf(cd, cmds)
    IN  IF Len(cmds) < MinVariations THEN << >>
        ELSE IF total_usage >= MinFunctionUsage
                /\ unique_suffixes(cmds, prefix) >= MinUniqueSuffixes
                /\ chars_saved_per_use > 0
        THEN << [prefix |-> prefix,
                 func_name |-> placeholder,
                 total_usage |-> total_usage,
                 variations |-> Len(cmds),
                 unique_suffixes |-> unique_suffixes(cmds, prefix),
                 commands |-> SubSeq(cmds, 1, Min(3, Len(cmds))),
                 chars_per_use |-> chars_saved_per_use,
                 total_chars_saved |-> chars_saved_per_use * total_usage,
                 non_adjacent_days |-> count_non_adjacent_days(all_dates),
                 date_span |-> IF all_dates = {} THEN 0
                               ELSE MaxOf(all_dates) - MinOf(all_dates)] >>
        ELSE << >>

RECURSIVE FunctionRecsFrom(_, _, _, _)
FunctionRecsFrom(ac, cd, order, prefixes) ==
    IF prefixes = << >> THEN << >>
    ELSE FunctionRecsOf(ac, cd, order, Head(prefixes))
           \o FunctionRecsFrom(ac, cd, order, Tail(prefixes))

\* the place list.sort(key=..., reverse=True) gives a record among records
\* already sorted: after those whose key is at least its own (the sort is
\* stable)
InsertDesc(sorted_recs, rec, key) ==
    LET n == Cardinality({i \in DOMAIN sorted_recs :
                             sorted_recs[i][key] >= rec[key]})
    IN  SubSeq(sorted_recs, 1, n) \o <<rec>>
          \o SubSeq(sorted_recs, n + 1, Len(sorted_recs))

RECURSIVE SortFrom(_, _, _, _)
SortFrom(recs, k, key, acc) ==
    IF k > Len(recs) THEN acc
    ELSE SortFrom(recs, k + 1, key, InsertDesc(acc, recs[k], key))

\* recs.sort(key=lambda x: x[key], reverse=True)
sort_reverse(recs, key) == SortFrom(recs, 1, key, << >>)

analyze_bash_functions(ac, cd, order) ==
    sort_reverse(FunctionRecsFrom(ac, cd, order, PrefixKeys(order, << >>)),
                 "total_chars_saved")

(***************************************************************************)
(* generate_function_name (lines 408-448) and generate_alias (682-718)     *)
(***************************************************************************)
\* the characters of [&|;><]
ShellOperatorChars == {"&", "|", ";", ">", "<"}

RECURSIVE SubOperatorRuns(_)
\* re.sub(r'[&|;><]+', ' ', text): every run of operator characters becomes
\* one space
SubOperatorRuns(s) ==
    IF s = << >> THEN << >>
    ELSE IF Head(s) \in ShellOperatorChars
    THEN IF Len(s) > 1 /\ s[2] \in ShellOperatorChars
         THEN SubOperatorRuns(Tail(s))
         ELSE <<" ">> \o SubOperatorRuns(Tail(s))
    ELSE <<Head(s)>> \o SubOperatorRuns(Tail(s))

\* the characters kept by re.sub(r'[^a-zA-Z0-9]', '', part)
IsAlnum(ch) ==
    ch \in Range(UpperCaseLetters) \cup Range(LowerCaseLetters)
           \cup Range(DigitChars)

\* the parts of the text without operators, reduced to their alphanumeric
\* characters, the empty ones dropped
meaningful_words(s) ==
    LET parts == split(SubOperatorRuns(s))
        clean_parts == [i \in 1..Len(parts) |-> SelectSeq(parts[i], IsAlnum)]
        NonEmpty(w) == Len(w) > 0
    IN  SelectSeq(clean_parts, NonEmpty)

\* ''.join(p[0] for p in words)
Initials(words) == [i \in 1..Len(words) |-> words[i][1]]

func == <<"f", "u", "n", "c">>

\* base_func_name of lines 427-445, or "func" when there is no word (the
\* name passed to generate_safe_name)
function_base_name(prefix) ==
    LET words == meaningful_words(prefix)
        base == IF Len(words) >= 3
                THEN IF words[1] = <<"g">>
                     THEN words[1] \o Initials(SubSeq(words, 2, 3))
                     ELSE Initials(SubSeq(words, 1, 3))
                ELSE IF Len(words) = 2
                THEN <<words[1][1], words[2][1]>>
                ELSE SubSeq(words[1], 1, Min(3, Len(words[1])))
    IN  IF words = << >> THEN func
        ELSE IF SelectSeq(base, IsNameChar) = << >> THEN func
        ELSE SelectSeq(base, IsNameChar)

generate_function_name(prefix, used) ==
    generate_safe_name(function_base_name(prefix), used, << >>, << >>)

alias_fallback == <<"c", "m", "d">>

\* the words of line 704
multi_word_tools ==
    { <<"g", "i", "t">>, <<"g">>, <<"d", "o", "c", "k", "e", "r">>, <<"n", "p", "m">>, <<"p", "i", "p">> }

\* base_alias of lines 703-716, or "cmd" when there is no meaningful part
\* (the name passed to generate_safe_name)
alias_base_name(command) ==
    LET words == meaningful_words(command)
        base == IF Len(words) = 2
                THEN <<words[1][1], words[2][1]>>
                ELSE IF words[1] \in multi_word_tools
                THEN <<words[1][1]>>
                       \o Initials(SubSeq(words, 2, Min(3, Len(words))))
                ELSE Initials(SubSeq(words, 1, Min(3, Len(words))))
    IN  IF words = << >> THEN alias_fallback
        ELSE IF SelectSeq(base, IsNameChar) = << >> THEN alias_fallback
        ELSE SelectSeq(base, IsNameChar)

generate_alias(command, used) ==
    generate_safe_name(alias_base_name(command), used, << >>, << >>)

(***************************************************************************)
(* The regular expressions of analyze_environment_variables,               *)
(* classify_string_type and generate_env_var_name.  A pattern is a         *)
(* sequence of items: a character class repeated between min and max       *)
(* times (greedy, with backtracking), an alternation of literal strings    *)
(* tried in order, or a zero-width test.                                   *)
(***************************************************************************)
\* \w
WordChars ==
    Range(UpperCaseLetters) \cup Range(LowerCaseLetters)
      \cup Range(DigitChars) \cup {"_"}

\* [\w/.+-]
PathChars == WordChars \cup {"/", ".", "+", "-"}

\* [\w.-]
DottedChars == WordChars \cup {".", "-"}

\* [\w-]
FlagChars == WordChars \cup {"-"}

\* [a-f0-9]
HexChars == {"a", "b", "c", "d", "e", "f"} \cup Range(DigitChars)

\* no upper bound of a repetition
Unbounded == -1

Rep(chars, min, max) ==
    [kind |-> "class", chars |-> chars, min |-> min, max |-> max,
     alts |-> << >>]

Lit(s) == [i \in 1..Len(s) |-> Rep({s[i]}, 1, 1)]

Alternation(alts) ==
    [kind |-> "alts", chars |-> {}, min |-> 0, max |-> 0, alts |-> alts]

\* (?<!\w), (?!\w) and $
NotAfterWord ==
    [kind |-> "not_after_word", chars |-> {}, min |-> 0, max |-> 0,
     alts |-> << >>]
NotBeforeWord ==
    [kind |-> "not_before_word", chars |-> {}, min |-> 0, max |-> 0,
     alts |-> << >>]
AtEnd ==
    [kind |-> "at_end", chars |-> {}, min |-> 0, max |-> 0, alts |-> << >>]

RECURSIVE RunLength(_, _, _)
\* the number of characters of the class from position i on
RunLength(s, i, chars) ==
    IF i <= Len(s) /\ s[i] \in chars THEN 1 + RunLength(s, i + 1, chars)
    ELSE 0

\* the value of a set with one element
The(S) == CHOOSE x \in S : TRUE

RECURSIVE MatchFrom(_, _, _, _)
RECURSIVE TryCounts(_, _, _, _, _)
RECURSIVE TryAlts(_, _, _, _, _)
\* the position after the match of items k.. at position i of s, or 0 when
\* there is none
MatchFrom(items, k, s, i) ==
    IF k > Len(items) THEN i
    ELSE IF items[k].kind = "class"
    THEN TryCounts(items, k, s, i,
                   IF items[k].max = Unbounded
                   THEN RunLength(s, i, items[k].chars)
                   ELSE Min(items[k].max, RunLength(s, i, items[k].chars)))
    ELSE IF items[k].kind = "alts"
    THEN TryAlts(items, k, s, i, 1)
    ELSE IF items[k].kind = "not_after_word"
    THEN IF i > 1 /\ s[i - 1] \in WordChars THEN 0
         ELSE MatchFrom(items, k + 1, s, i)
    ELSE IF items[k].kind = "not_before_word"
    THEN IF i <= Len(s) /\ s[i] \in WordChars THEN 0
         ELSE MatchFrom(items, k + 1, s, i)
    ELSE \* at_end
         IF i = Len(s) + 1 THEN MatchFrom(items, k + 1, s, i) ELSE 0

\* the longest repetition after which the rest of the pattern matches, the
\* repetitions being between the minimum and n characters long
TryCounts(items, k, s, i, n) ==
    The({ IF \A r \in ends : r[2] = 0 THEN 0
          ELSE (CHOOSE r \in ends :
                   r[2] # 0 /\ \A q \in ends : q[2] # 0 => q[1] <= r[1])[2] :
          ends \in { {<<m, MatchFrom(items, k + 1, s, i + m)>> :
                        m \in items[k].min..n} } })

TryAlts(items, k, s, i, a) ==
    IF a > Len(items[k].alts) THEN 0
    ELSE IF OccursAt(s, i, items[k].alts[a])
    THEN The({ IF e # 0 THEN e ELSE TryAlts(items, k, s, i, a + 1) :
               e \in {MatchFrom(items, k + 1, s, i + Len(items[k].alts[a]))} })
    ELSE TryAlts(items, k, s, i, a + 1)

\* re.match(pattern, s)
re_match(items, s) == MatchFrom(items, 1, s, 1) # 0

RECURSIVE FindAllFrom(_, _, _)
\* re.findall(pattern, s) from position i on: the leftmost match, then the
\* matches after it (no pattern here has a group or an empty match)
FindAllFrom(items, s, i) ==
    IF i > Len(s) THEN << >>
    ELSE The({ IF e = 0 THEN FindAllFrom(items, s, i + 1)
               ELSE <<SubSeq(s, i, e - 1)>> \o FindAllFrom(items, s, e) :
               e \in {MatchFrom(items, 1, s, i)} })

findall(items, s) == FindAllFrom(items, s, 1)

\* the extensions of the file pattern, in its order
file_extensions ==
    << <<"p", "y">>, <<"j", "s">>, <<"t", "s">>, <<"c", "p", "p">>, <<"c">>, <<"h">>, <<"m", "d">>, <<"t", "x", "t">>, <<"l", "o", "g">>, <<"c", "o", "n", "f">>, <<"j", "s", "o", "n">>, <<"x", "m", "l">>, <<"y", "a", "m", "l">>, <<"y", "m", "l">> >>

\* patterns_to_check (lines 458-480)
patterns_to_check ==
    << Lit(<<"o", "r", "i", "g", "i", "n", "/">>) \o <<Rep(PathChars, 1, Unbounded)>>,
       Lit(<<"u", "p", "s", "t", "r", "e", "a", "m", "/">>) \o <<Rep(PathChars, 1, Unbounded)>>,
       Lit(<<"/">>) \o <<Rep(PathChars, 8, Unbounded)>>,
       <<NotAfterWord, Rep(DottedChars, 1, Unbounded)>> \o Lit(<<"/">>)
          \o <<Rep(PathChars, 8, Unbounded)>>,
       Lit(<<"h", "t", "t", "p">>) \o <<Rep({"s"}, 0, 1)>> \o Lit(<<":", "/", "/">>)
          \o <<Rep(PathChars, 1, Unbounded)>>,
       <<Rep(DottedChars, 1, Unbounded)>> \o Lit(<<".">>)
          \o <<Rep(DottedChars, 1, Unbounded)>> \o Lit(<<"/">>)
          \o <<Rep(PathChars, 1, Unbounded)>>,
       <<Rep(DottedChars, 1, Unbounded)>> \o Lit(<<":">>)
          \o <<Rep(Range(DigitChars), 1, Unbounded)>>,
       Lit(<<"-", "-">>) \o <<Rep(FlagChars, 1, Unbounded)>> \o Lit(<<"=">>)
          \o <<Rep(PathChars, 4, Unbounded)>>,
       Lit(<<"-", "-">>) \o <<Rep(FlagChars, 6, Unbounded)>>,
       Lit(<<"v">>) \o <<Rep(Range(DigitChars), 1, Unbounded)>> \o Lit(<<".">>)
          \o <<Rep(Range(DigitChars), 1, Unbounded),
               Rep(DottedChars, 0, Unbounded)>>,
       <<Rep(HexChars, 12, Unbounded)>>,
       <<Rep(DottedChars, 1, Unbounded)>> \o Lit(<<".">>)
          \o <<Alternation(file_extensions), NotBeforeWord>>,
       <<Rep(DottedChars, 0, Unbounded), Rep({"/", "_", "-"}, 1, 1),
         Rep(PathChars, 6, Unbounded)>> >>

(***************************************************************************)
(* String methods used by the environment-variable planner                 *)
(***************************************************************************)
\* one character of str.upper()
UpperChar(ch) ==
    IF ch \in Range(LowerCaseLetters)
    THEN UpperCaseLetters[CHOOSE i \in 1..26 : LowerCaseLetters[i] = ch]
    ELSE ch

\* str.upper()
upper(s) == [i \in 1..Len(s) |-> UpperChar(s[i])]

\* sub in s
Contains(s, sub) == \E i \in 1..Len(s) : OccursAt(s, i, sub)

\* s.isdigit()
isdigit(s) == s # << >> /\ \A i \in 1..Len(s) : s[i] \in Range(DigitChars)

RECURSIVE SplitOn(_, _)
\* s.split(sep) and re.split on a character class: the pieces between the
\* separators, the empty ones included
SplitOn(s, seps) ==
    IF \A i \in 1..Len(s) : s[i] \notin seps THEN <<s>>
    ELSE LET i == CHOOSE j \in 1..Len(s) :
                     s[j] \in seps /\ \A h \in 1..(j - 1) : s[h] \notin seps
         IN  <<SubSeq(s, 1, i - 1)>> \o SplitOn(SubSeq(s, i + 1, Len(s)), seps)

\* s[:n]
Take(s, n) == SubSeq(s, 1, Min(n, Len(s)))

\* seq[-n:]
Last(seq, n) == SubSeq(seq, Len(seq) - Min(n, Len(seq)) + 1, Len(seq))

(***************************************************************************)
(* generate_env_var_name (lines 598-680)                                   *)
(***************************************************************************)
\* p[0] of an empty string
IndexError == <<"<IndexError>">>

\* ^https?://
url_pattern == Lit(<<"h", "t", "t", "p">>) \o <<Rep({"s"}, 0, 1)>> \o Lit(<<":", "/", "/">>)

\* re.sub(r'^https?://([^/]+).*', r'\1', s) for s that starts with the URL
\* scheme: the characters up to the next slash when there is one at least,
\* and s itself when the pattern does not match
DomainOf(s) ==
    LET start == MatchFrom(url_pattern, 1, s, 1)
        rest == SubSeq(s, start, Len(s))
    IN  IF rest = << >> \/ rest[1] = "/" THEN s
        ELSE SplitOn(rest, {"/"})[1]

\* ''.join(p[0].upper() for p in parts), which raises for an empty part
UpperInitials(parts) ==
    IF \E i \in 1..Len(parts) : parts[i] = << >> THEN IndexError
    ELSE upper(Initials(parts))

\* min(parts, key=len): the first of the shortest parts
Shortest(parts) ==
    parts[CHOOSE i \in 1..Len(parts) :
             /\ \A j \in 1..Len(parts) : Len(parts[i]) <= Len(parts[j])
             /\ \A j \in 1..(i - 1) : Len(parts[j]) > Len(parts[i])]

\* lines 625-631
UrlName(s) ==
    LET parts == SplitOn(DomainOf(s), {"."})
    IN  IF Len(parts) >= 2 THEN UpperInitials(Last(parts, 2))
        ELSE upper(Take(DomainOf(s), 3))

\* lines 633-637
FlagName(s) ==
    LET NotSeparator(ch) == ch \notin {"-", "_"}
    IN  upper(Take(SelectSeq(SubSeq(s, 3, Len(s)), NotSeparator), 3))

\* lines 639-646
BranchName(s) ==
    LET branch == SubSeq(s, 8, Len(s))
        Meaningful(part) == Len(part) > 1
        parts == SelectSeq(SplitOn(branch, {"/"}), Meaningful)
    IN  IF "/" \in Range(branch) /\ Len(parts) >= 2
        THEN upper(Initials(Take(parts, 2)))
        ELSE upper(Take(branch, 3))

\* the parts of line 650
PathParts(s) ==
    LET Kept(part) == Len(part) > 1 /\ ~isdigit(part)
    IN  SelectSeq(SplitOn(s, {"/"}), Kept)

\* lines 651-658, for a string with parts
PathName(s) ==
    LET parts == PathParts(s)
    IN  IF Len(Shortest(parts)) <= 3 THEN upper(Shortest(parts))
        ELSE IF Len(parts) >= 2 THEN upper(Initials(Last(parts, 2)))
        ELSE upper(Take(parts[Len(parts)], 3))

\* lines 660-680
OtherName(s) ==
    LET clean == SelectSeq(s, IsAlnum)
        NonEmpty(part) == Len(part) > 0
        parts == SelectSeq(SplitOn(s, {"_", ".", "-"}), NonEmpty)
        IsEnvChar(ch) ==
            ch \in Range(UpperCaseLetters) \cup Range(DigitChars) \cup {"_"}
        result == SelectSeq(upper(Take(clean, 3)), IsEnvChar)
    IN  IF Len(clean) <= 3 THEN upper(clean)
        ELSE IF Range(s) \cap {"_", "-", "."} # {} /\ Len(parts) >= 2
        THEN upper(Initials(Take(parts, 3)))
        ELSE IF result = << >> THEN <<"V", "A", "R">>
        ELSE result

generate_env_var_name(string_pattern) ==
    IF Contains(string_pattern, <<"/", "p", "r", "o", "j", "_", "r", "i", "s", "c", "/", "u", "s", "e", "r", "_", "d", "e", "v", "/">>)
       /\ Contains(string_pattern, <<"w", "t">>)
    THEN <<"W", "T">>
    ELSE IF Contains(string_pattern, <<"a", "s", "c", "a", "l", "o", "n">>)
            /\ Contains(string_pattern, <<"w", "o", "r", "k">>)
    THEN IF Contains(string_pattern, <<"H", "E", "A", "D">>) THEN <<"A", "W", "H">> ELSE <<"A", "W">>
    ELSE IF Contains(string_pattern, <<"b", "z", "s", "i", "m">>) THEN <<"B", "Z">>
    ELSE IF Contains(string_pattern, <<"i", "n", "f", "r", "a">>)
            /\ Contains(string_pattern, <<"c", "h", "e", "c", "k", "i", "n">>)
    THEN <<"I", "C">>
    ELSE IF Contains(string_pattern, <<"r", "i", "s", "c", "-", "p", "-", "c", "o", "r", "e", "s">>)
            \/ Contains(string_pattern, <<"r", "i", "s", "c", "_", "p", "_", "c", "o", "r", "e", "s">>)
    THEN <<"R", "C">>
    ELSE IF Contains(string_pattern, <<"s", "c", "r", "i", "p", "t", "s">>)
            /\ Contains(string_pattern, <<"o", "p", "e", "n">>)
    THEN <<"S", "O">>
    ELSE IF re_match(url_pattern, string_pattern) THEN UrlName(string_pattern)
    ELSE IF re_match(Lit(<<"-", "-">>), string_pattern) THEN FlagName(string_pattern)
    ELSE IF re_match(Lit(<<"o", "r", "i", "g", "i", "n", "/">>), string_pattern)
    THEN BranchName(string_pattern)
    ELSE IF "/" \in Range(string_pattern) /\ PathParts(string_pattern) # << >>
    THEN PathName(string_pattern)
    ELSE OtherName(string_pattern)

(***************************************************************************)
(* classify_string_type (lines 577-596)                                    *)
(***************************************************************************)
classify_string_type(string_pattern) ==
    IF re_match(url_pattern, string_pattern) THEN "URL"
    ELSE IF re_match(Lit(<<"/">>), string_pattern) THEN "Path"
    ELSE IF re_match(<<Rep(DottedChars, 1, Unbounded)>> \o Lit(<<"/">>)
                       \o <<Rep(DottedChars \cup {"/"}, 1, Unbounded)>>,
                     string_pattern)
    THEN "Path/Branch"
    ELSE IF re_match(Lit(<<"-", "-">>) \o <<Rep(FlagChars, 1, Unbounded)>>,
                     string_pattern)
    THEN "Flag"
    ELSE IF re_match(patterns_to_check[7], string_pattern) THEN "Host:Port"
    ELSE IF re_match(patterns_to_check[11], string_pattern) THEN "Hash"
    ELSE IF re_match(Lit(<<"v">>) \o <<Rep(Range(DigitChars), 1, Unbounded)>>
                       \o Lit(<<".">>) \o <<Rep(Range(DigitChars), 1, Unbounded)>>,
                     string_pattern)
    THEN "Version"
    ELSE IF re_match(<<Rep(DottedChars, 1, Unbounded)>> \o Lit(<<".">>)
                       \o <<Rep(WordChars, 2, 4), AtEnd>>,
                     string_pattern)
    THEN "File"
    ELSE "String"

(***************************************************************************)
(* analyze_environment_variables (lines 450-575)                           *)
(***************************************************************************)
\* the values of line 489
common_values ==
    { <<"t", "r", "u", "e">>, <<"f", "a", "l", "s", "e">>, <<"n", "u", "l", "l">>, <<"n", "o", "n", "e">>, <<"o", "r", "i", "g", "i", "n">>, <<"m", "a", "s", "t", "e", "r">>, <<"m", "a", "i", "n">> }

\* ^-[a-zA-Z]$
single_letter_flag ==
    Lit(<<"-">>)
      \o <<Rep(Range(UpperCaseLetters) \cup Range(LowerCaseLetters), 1, 1),
           AtEnd>>

\* if len(match) >= 6
MinMatchLength == 6

\* the condition of lines 485-491: `and` binds tighter than `or`, so the
\* tests apply to the matches with a slash, and every match with a dash, an
\* underscore or a dot passes
AcceptsMatch(match) ==
    \/ /\ Len(match) >= MinMatchLength
       /\ ~isdigit(match)
       /\ ~re_match(single_letter_flag, match)
       /\ lower(match) \notin common_values
       /\ Cardinality(Range(match) \ {"/", "-", "_", "."}) > 2
       /\ "/" \in Range(match)
    \/ "-" \in Range(match)
    \/ "_" \in Range(match)
    \/ "." \in Range(match)

\* normalized_match of lines 494-503: the leading slash is removed (the
\* elif branch needs a match that is a single slash, which no pattern finds;
\* path_normalization_map is read in that branch only)
NormalizedMatch(match) ==
    IF match[1] = "/" /\ Len(match) > 1 THEN Tail(match) ELSE match

RECURSIVE MatchesFrom(_, _)
\* the matches of the patterns k.. in cmd, in the order of the two loops
MatchesFrom(cmd, k) ==
    IF k > Len(patterns_to_check) THEN << >>
    ELSE findall(patterns_to_check[k], cmd) \o MatchesFrom(cmd, k + 1)

\* the appends string_usage[normalized_match].append((cmd, count)) made for
\* one command
UsagesOf(cmd) ==
    LET accepted == SelectSeq(MatchesFrom(cmd, 1), AcceptsMatch)
    IN  [i \in 1..Len(accepted) |->
            [string |-> NormalizedMatch(accepted[i]), cmd |-> cmd]]

RECURSIVE StringUsage(_)
\* all the appends of the loop of lines 456-505, in order
StringUsage(order) ==
    IF order = << >> THEN << >>
    ELSE UsagesOf(Head(order)) \o StringUsage(Tail(order))

\* string_usage[string_pattern]: the commands of its (cmd, count) tuples
UsagesOfString(usage, string_pattern) ==
    LET Same(u) == u.string = string_pattern
        us == SelectSeq(usage, Same)
    IN  [i \in 1..Len(us) |-> us[i].cmd]

\* absolute_usage of lines 523-529
absolute_usage(ac, usages, string_pattern) ==
    LET Absolute(cmd) == Contains(cmd, <<"/">> \o string_pattern)
    IN  SumCounts(ac, SelectSeq(usages, Absolute))

display_pattern(ac, usages, string_pattern) ==
    IF absolute_usage(ac, usages, string_pattern)
          > SumCounts(ac, usages) - absolute_usage(ac, usages, string_pattern)
       /\ string_pattern[1] # "/"
    THEN <<"/">> \o string_pattern
    ELSE string_pattern

Max(a, b) == IF a >= b THEN a ELSE b

\* min_usage = max(5, 20 - len(display_pattern))
min_usage(display) == Max(5, 20 - Len(display))

\* min_commands = 2 if len(display_pattern) > 10 else 3
min_commands(display) == IF Len(display) > 10 THEN 2 ELSE 3

\* if total_usage >= min_usage and command_count >= min_commands
ClearsThresholds(total_usage, command_count, display) ==
    total_usage >= min_usage(display) /\ command_count >= min_commands(display)

\* one iteration of the loop over string_usage (lines 510-569); a name that
\* could not be generated is kept as the env_name of the record
EnvRecsOf(ac, cd, usage, string_pattern) ==
    LET usages == UsagesOfString(usage, string_pattern)
        total_usage == SumCounts(ac, usages)
        display == display_pattern(ac, usages, string_pattern)
        env_name == generate_env_var_name(display)
        chars_saved_per_use == Len(display) - (1 + Len(env_name))
        all_dates == AllDatesOf(cd, usages)
    IN  IF ClearsThresholds(total_usage, Len(usages), display)
           /\ (chars_saved_per_use > 0 \/ env_name = IndexError)
        THEN << [string |-> display,
                 env_name |-> env_name,
                 total_usage |-> total_usage,
                 command_count |-> Len(usages),
                 commands |-> usages,
                 chars_per_use |-> chars_saved_per_use,
                 total_chars_saved |-> chars_saved_per_use * total_usage,
                 non_adjacent_days |-> count_non_adjacent_days(all_dates),
                 date_span |-> IF all_dates = {} THEN 0
                               ELSE MaxOf(all_dates) - MinOf(all_dates),
                 string_type |-> classify_string_type(display)] >>
        ELSE << >>

RECURSIVE EnvRecsFrom(_, _, _, _)
EnvRecsFrom(ac, cd, usage, strings) ==
    IF strings = << >> THEN << >>
    ELSE EnvRecsOf(ac, cd, usage, Head(strings))
           \o EnvRecsFrom(ac, cd, usage, Tail(strings))

\* env_var_candidates before the sort
env_var_candidates(ac, cd, order) ==
    The({ EnvRecsFrom(ac, cd, usage,
                      AppendNew(<< >>, [i \in 1..Len(usage) |-> usage[i].string])) :
          usage \in {StringUsage(order)} })

analyze_environment_variables(ac, cd, order) ==
    sort_reverse(env_var_candidates(ac, cd, order), "total_chars_saved")

(***************************************************************************)
(* calculate_temporal_savings after analyze_root_commands (lines 729-877)  *)
(* and generate_output_files (lines 881-1001)                              *)
(***************************************************************************)
\* alias_recommendations[:25], savings_data[:20], sorted_aliases[:20],
\* function_recommendations[:10], env_var_recommendations[:10]
TopRecommendations == 25
TopTableRows == 20
TopFileAliases == 20
TopFunctions == 10
TopExports == 10

RECURSIVE NameAll(_, _, _, _)
\* the names given to the texts one after the other by generate_alias or
\* generate_function_name, each name added to the allocation set before the
\* next is generated; st = [names, used, calls], calls counting the runs of
\* `type`
NameAll(texts, kind, k, st) ==
    IF k > Len(texts) THEN st
    ELSE LET base == IF kind = "alias" THEN alias_base_name(texts[k])
                     ELSE function_base_name(texts[k])
             name == IF kind = "alias" THEN generate_alias(texts[k], st.used)
                     ELSE generate_function_name(texts[k], st.used)
         IN  NameAll(texts, kind, k + 1,
                     [names |-> Append(st.names, name),
                      used |-> st.used \cup {name},
                      calls |-> CountCalls(st.calls,
                                           consulted_names(base, st.used,
                                                           << >>, << >>))])

\* no name has been given
Unnamed(calls) == [names |-> << >>, used |-> {}, calls |-> calls]

\* the prefixes of function_recommendations[:10]
TopPrefixes(recs) ==
    [i \in 1..Min(TopFunctions, Len(recs)) |-> recs[i].prefix]

\* savings_data (lines 743-770) before its sort: the recommendations of the
\* top 25 that save characters with the alias they carry
savings_data(recs, cd) ==
    LET Saves(rec) == Len(rec.original) - Len(rec.alias) > 0
        kept == SelectSeq(Take(recs, TopRecommendations), Saves)
    IN  [i \in 1..Len(kept) |->
            [original |-> kept[i].original,
             alias |-> kept[i].alias,
             count |-> kept[i].count,
             chars_per_use |-> Len(kept[i].original) - Len(kept[i].alias),
             total_chars |->
                 (Len(kept[i].original) - Len(kept[i].alias)) * kept[i].count,
             non_adjacent_days |->
                 count_non_adjacent_days(DatesOf(cd, kept[i].original)),
             date_span |-> IF DatesOf(cd, kept[i].original) = {} THEN 0
                           ELSE MaxOf(DatesOf(cd, kept[i].original))
                                  - MinOf(DatesOf(cd, kept[i].original)),
             type |-> kept[i].type]]

\* function_recommendations = self.analyze_bash_functions() (line 730)
PlanFunctions ==
    /\ pc = "planned"
    /\ function_recommendations' =
          analyze_bash_functions(all_commands, command_dates, key_order)
    /\ pc' = "functions_planned"
    /\ UNCHANGED <<runVars, daysVars, cleanVars, nameVars, histVars, orderVars,
                   oracle_calls, function_names, env_var_recommendations,
                   table_aliases, file_aliases, export_names>>

\* env_var_recommendations = self.analyze_environment_variables() (line
\* 733); an IndexError of generate_env_var_name leaves the run
PlanEnvVars ==
    /\ pc = "functions_planned"
    /\ \E candidates \in
           {env_var_candidates(all_commands, command_dates, key_order)} :
          IF \E i \in 1..Len(candidates) : candidates[i].env_name = IndexError
          THEN /\ pc' = "crashed"
               /\ UNCHANGED env_var_recommendations
          ELSE /\ pc' = "env_planned"
               /\ env_var_recommendations' =
                     sort_reverse(candidates, "total_chars_saved")
    /\ UNCHANGED <<runVars, daysVars, cleanVars, nameVars, histVars, orderVars,
                   oracle_calls, function_recommendations, function_names,
                   table_aliases, file_aliases, export_names>>

\* lines 736-877: the recommendations are sorted in place, the dates of the
\* top 25 are looked up, and the rows of the alias table and of the function
\* table are named, each table with its own allocation set
PrintTable ==
    /\ pc = "env_planned"
    /\ \E sorted_recs \in {sort_reverse(alias_recommendations, "savings")} :
       \E rows \in {Take(sort_reverse(savings_data(sorted_recs, command_dates),
                                      "total_chars"),
                         TopTableRows)} :
       \E named \in {NameAll([i \in 1..Len(rows) |-> rows[i].original],
                             "alias", 1, Unnamed(oracle_calls))} :
       \E fnamed \in {NameAll(TopPrefixes(function_recommendations),
                              "function", 1, Unnamed(named.calls))} :
          /\ alias_recommendations' = sorted_recs
          /\ command_dates' =
                [cmd \in DOMAIN command_dates
                           \cup {sorted_recs[i].original :
                                   i \in 1..Min(TopRecommendations,
                                                Len(sorted_recs))} |->
                    DatesOf(command_dates, cmd)]
          /\ table_aliases' =
                [i \in 1..Len(rows) |->
                    [original |-> rows[i].original, alias |-> named.names[i]]]
          /\ oracle_calls' = fnamed.calls
    /\ pc' = "table_printed"
    /\ UNCHANGED <<entries, processed, argVars, commands, all_commands,
                   key_order, oracleVars, skipVars, daysVars, cleanVars,
                   nameVars, histVars, orderVars, function_recommendations,
                   function_names, env_var_recommendations, file_aliases,
                   export_names>>

RECURSIVE ExportNamesFrom(_, _, _)
RECURSIVE NumberedExport(_, _, _)
\* the loop of lines 966-968: base_env, then base_env_1, base_env_2, ...
NumberedExport(base_env, used, counter) ==
    IF base_env \o <<"_">> \o str_int(counter) \in used
    THEN NumberedExport(base_env, used, counter + 1)
    ELSE base_env \o <<"_">> \o str_int(counter)

\* the names of the exports file (lines 957-969)
ExportNamesFrom(recs, k, names) ==
    IF k > Min(TopExports, Len(recs)) THEN names
    ELSE ExportNamesFrom(recs, k + 1,
            Append(names,
                   IF recs[k].env_name \in Range(names)
                   THEN NumberedExport(recs[k].env_name, Range(names), 1)
                   ELSE recs[k].env_name))

\* generate_output_files: the aliases of the 20 recommendations with the
\* largest savings, the functions, the exports
WriteFiles ==
    /\ pc = "table_printed"
    /\ \E top \in {Take(sort_reverse(alias_recommendations, "savings"),
                        TopFileAliases)} :
       \E named \in {NameAll([i \in 1..Len(top) |-> top[i].original],
                             "alias", 1, Unnamed(oracle_calls))} :
       \E fnamed \in {NameAll(TopPrefixes(function_recommendations),
                              "function", 1, Unnamed(named.calls))} :
          /\ file_aliases' =
                [i \in 1..Len(top) |->
                    [original |-> top[i].original, alias |-> named.names[i]]]
          /\ function_names' = fnamed.names
          /\ oracle_calls' = fnamed.calls
    /\ export_names' = ExportNamesFrom(env_var_recommendations, 1, << >>)
    /\ pc' = "files_written"
    /\ UNCHANGED <<runVars, daysVars, cleanVars, nameVars, histVars, orderVars,
                   function_recommendations, env_var_recommendations,
                   table_aliases>>

(***************************************************************************)
(* Specification SpecFunctions: runs over the histories of a user who      *)
(* deploys a service, up to the generated files.  Every entry has the date *)
(* of the only day of the history or none; the oracle finds `deploy`.      *)
(***************************************************************************)
MaxFunctionLog == 4    \* entries of the histories of SpecFunctions

deploy_x == deploy \o <<" ", "x">>

\* the command lines of the histories
FunctionLines ==
    { deploy_service_A,                               \* deploy service A
      deploy_service_A \o <<" ", "x", " ", "y">>,     \* deploy service A x y
      deploy_x }                                      \* deploy x

InitFunctions ==
    /\ RunStart
    /\ HistIdle
    /\ entries = << >>
    /\ min_days \in MainMinDays
    /\ min_count = DefaultMinCount

IngestFunctionLine ==
    /\ pc = "ingest"
    /\ processed < MaxFunctionLog
    /\ \E cmd \in FunctionLines : \E date \in {NoDate, 1} :
          AnalyzeEntry(cmd, date, "zero")
    /\ processed' = processed + 1
    /\ UNCHANGED <<entries, argVars, alias_recommendations, otherVars>>

NextFunctions ==
    \/ IngestFunctionLine
    \/ Filter
    \/ AnalyzeRoot
    \/ PlanFunctions
    \/ PlanEnvVars
    \/ PrintTable
    \/ WriteFiles

SpecFunctions == InitFunctions /\ [][NextFunctions]_vars

\* C21: the estimated savings of every function written to the functions
\* file are (len(prefix) - len(function_name) - 1) * total_usage for the
\* collision-checked name the function is written under.
C21_SavingsOfEmittedName ==
    pc = "files_written" =>
        \A i \in 1..Len(function_names) :
            function_recommendations[i].total_chars_saved
              = (Len(function_recommendations[i].prefix)
                   - Len(function_names[i]) - 1)
                * function_recommendations[i].total_usage

\* the leading tokens of the command are the tokens of the prefix
LeadingTokensAre(cmd, prefix) ==
    /\ Len(split(cmd)) >= Len(split(prefix))
    /\ SubSeq(split(cmd), 1, Len(split(prefix))) = split(prefix)

\* the surviving patterns that start with the prefix
MembersOf(prefix) == {c \in DOMAIN all_commands : LeadingTokensAre(c, prefix)}

\* the 3-, 4- and 5-token prefixes of the surviving patterns
CandidatePrefixes ==
    UNION { {join(SubSeq(split(c), 1, n)) : n \in 3..Min(5, Len(split(c)))} :
            c \in DOMAIN all_commands }

\* the text of a member after the prefix, empty for the prefix itself
RemainderOf(cmd, prefix) ==
    join(SubSeq(split(cmd), Len(split(prefix)) + 1, Len(split(cmd))))

\* C22: a 3-, 4- or 5-token prefix (long enough to save characters) is
\* recommended as a function if and only if at least 2 surviving patterns
\* start with it, their remainders after the prefix are at least 2 distinct
\* strings, the empty remainder counting as one, and their summed usage is
\* at least 10.
C22_CandidateIff ==
    pc = "functions_planned" =>
        \A prefix \in CandidatePrefixes :
            (Len(split(prefix)) \in 3..5 /\ Len(prefix) > func_call_len) =>
                ((\E i \in 1..Len(function_recommendations) :
                      function_recommendations[i].prefix = prefix)
                 <=> /\ Cardinality(MembersOf(prefix)) >= 2
                     /\ Cardinality({RemainderOf(c, prefix) :
                                        c \in MembersOf(prefix)}) >= 2
                     /\ SetSum(MembersOf(prefix), all_commands) >= 10)

\* C28: the total_usage of a function recommendation is at most the number
\* of accepted input lines whose leading tokens are the prefix.
C28_UsageAtMostLines ==
    pc = "functions_planned" =>
        \A i \in 1..Len(function_recommendations) :
            function_recommendations[i].total_usage
              <= Cardinality({k \in 1..Len(commands) :
                                LeadingTokensAre(commands[k],
                                    function_recommendations[i].prefix)})

(***************************************************************************)
(* Specification SpecEnv: runs over the histories of a user who looks at   *)
(* a key file, up to the generated files.                                  *)
(***************************************************************************)
MaxEnvLog == 3    \* entries of the histories of SpecEnv

key_file == <<"/", ".", "s", "s", "h", "/", "i", "d", "_", "r", "s", "a">>

\* the command lines of the histories
EnvLines ==
    { <<"l", "s", " ">> \o key_file,      \* ls /.ssh/id_rsa
      <<"c", "a", "t", " ">> \o key_file,     \* cat /.ssh/id_rsa
      <<"l", "s">> }                  \* ls

InitEnv ==
    /\ RunStart
    /\ HistIdle
    /\ entries = << >>
    /\ min_days \in MainMinDays
    /\ min_count = DefaultMinCount

IngestEnvLine ==
    /\ pc = "ingest"
    /\ processed < MaxEnvLog
    /\ \E cmd \in EnvLines : \E date \in {NoDate, 1} :
          AnalyzeEntry(cmd, date, "zero")
    /\ processed' = processed + 1
    /\ UNCHANGED <<entries, argVars, alias_recommendations, otherVars>>

NextEnv ==
    \/ IngestEnvLine
    \/ Filter
    \/ AnalyzeRoot
    \/ PlanFunctions
    \/ PlanEnvVars
    \/ PrintTable
    \/ WriteFiles

SpecEnv == InitEnv /\ [][NextEnv]_vars

\* C23: a literal is proposed only if the counts of the distinct surviving
\* commands that contain it sum to at least max(5, 20 - length) and these
\* commands are at least 2 when length > 10 and at least 3 otherwise; the
\* total_usage and the command_count of the proposal are that sum and that
\* number, every command counted once.
C23_DistinctCommandsCounted ==
    pc = "env_planned" =>
        \A i \in 1..Len(env_var_recommendations) :
            LET rec == env_var_recommendations[i]
                cmds == {c \in DOMAIN all_commands :
                            Contains(c, rec.string)
                            \/ Contains(c, NormalizedMatch(rec.string))}
            IN  /\ rec.command_count = Cardinality(cmds)
                /\ rec.total_usage = SetSum(cmds, all_commands)
                /\ rec.total_usage >= 5
                /\ rec.total_usage >= 20 - Len(rec.string)
                /\ rec.command_count >= (IF Len(rec.string) > 10 THEN 2 ELSE 3)

\* C24: the name of every proposed environment variable is not empty,
\* has only characters of [A-Z0-9_], and neither starts nor ends with an
\* underscore.
C24_EnvNameWellFormed ==
    \A i \in 1..Len(env_var_recommendations) :
        LET name == env_var_recommendations[i].env_name
        IN  /\ name # << >>
            /\ \A k \in 1..Len(name) :
                  name[k] \in Range(UpperCaseLetters) \cup Range(DigitChars)
                                \cup {"_"}
            /\ name[1] # "_"
            /\ name[Len(name)] # "_"

\* C25: after the filter, the first token and every shorter token prefix
\* of a surviving multi-word pattern are patterns of the index too, so the
\* root_usage that analyze_root_commands reads for its root is not zero.
C25_PrefixesSurvive ==
    pc \in {"filtered", "planned"} =>
        \A p \in DOMAIN all_commands :
            MultiWord(p) =>
                /\ \A k \in 1..(Len(split(p)) - 1) :
                      join(SubSeq(split(p), 1, k)) \in DOMAIN all_commands
                /\ root_usage(all_commands, RootOf(p)) > 0

\* the first tokens of the multi-word patterns of the index
RootsOfIndex == {RootOf(c) : c \in {p \in DOMAIN all_commands : MultiWord(p)}}

\* the recommendations of a root group: for the root itself, and for the
\* patterns of the group
RootRecsOf(root) ==
    {i \in 1..Len(alias_recommendations) :
        /\ alias_recommendations[i].type = "root"
        /\ alias_recommendations[i].original = root}

PatternRecsOfRoot(root) ==
    {i \in 1..Len(alias_recommendations) :
        /\ alias_recommendations[i].type = "pattern"
        /\ RootOf(alias_recommendations[i].original) = root}

\* the root alias is preferred for the group: the root is in the index and
\* its savings are above 1.2 times those of the patterns
RootPreferred(root) ==
    /\ root \in DOMAIN all_commands
    /\ 5 * RootSavingsOf(root) > 6 * PatternSavingsOf(root)

\* C26: a root group gets either one root recommendation or pattern
\* recommendations, never both; and when the root alias is preferred but
\* not emitted, no pattern of the group is used 3 times or more, so no
\* pattern recommendation is lost.
C26_RootOrPatterns ==
    pc = "planned" =>
        \A root \in RootsOfIndex :
            /\ Cardinality(RootRecsOf(root)) <= 1
            /\ RootRecsOf(root) = {} \/ PatternRecsOfRoot(root) = {}
            /\ RootPreferred(root) => PatternRecsOfRoot(root) = {}
            /\ (RootPreferred(root) /\ RootRecsOf(root) = {}) =>
                  \A p \in PatternsOfRoot(root) : all_commands[p] < 3

\* the root alias is preferred for `deploy` and is not emitted, the group
\* being used less than 5 times
C26_Witness ==
    /\ pc = "planned"
    /\ RootPreferred(deploy)
    /\ PatternsOfRoot(deploy) # {}
    /\ alias_recommendations = << >>

\* C27: valid_commands and invalid_commands are disjoint, and a token that
\* is in one of them stays in it: is_valid_command answers for it from the
\* cache whatever the oracle would do, the oracle is not consulted for it
\* again, and the line that starts with it is accepted or skipped as the
\* cache says.
C27_CacheIsFinal ==
    [][/\ valid_commands \cap invalid_commands = {}
       /\ valid_commands' \cap invalid_commands' = {}
       /\ \A w \in valid_commands \cup invalid_commands :
             /\ w \in valid_commands => w \in valid_commands'
             /\ w \in invalid_commands => w \in invalid_commands'
             /\ \A outcome \in OracleOutcomes :
                   is_valid_command(w, outcome) = (w \in valid_commands)
             /\ oracle_calls'[w] = oracle_calls[w]
       /\ Len(commands') > Len(commands) =>
             RootOf(commands'[Len(commands')]) \in valid_commands'
      ]_vars

\* `abc` is cached as valid, two lines that start with it are accepted and
\* the oracle was asked once
C27_Witness ==
    /\ pc = "ingest"
    /\ abc \in valid_commands
    /\ Len(commands) >= 2
    /\ oracle_calls[abc] = 1

\* C29: a recommendation that is a row of the printed alias table and an
\* entry of the generated aliases file has the same alias name in both.
C29_TableNameIsFileName ==
    pc = "files_written" =>
        \A i \in 1..Len(table_aliases) : \A j \in 1..Len(file_aliases) :
            table_aliases[i].original = file_aliases[j].original =>
                table_aliases[i].alias = file_aliases[j].alias

====
